---------------------------- MODULE Spec2Model ----------------------------
(***************************************************************************)
(* KnowledgeHub VS Code extension.                                         *)
(*                                                                         *)
(*   Spec        LiveContextStream and its ContextBuffer (live-context.ts) *)
(*               driven by the host's notifications, a periodic timer and  *)
(*               a wall clock.                                             *)
(*   SpecDetect  AIProviderDetector.detectProviders over a bounded set of  *)
(*               installed-extension lists.                                *)
(*   SpecWait    AIProviderDetector.waitForProviderActivation: the race    *)
(*               between the timeout timer and extension.activate().       *)
(***************************************************************************)
EXTENDS Integers, Sequences, FiniteSets, TLC

VARIABLES
    \* ---- LiveContextStream (live-context.ts:18-28)
    isActive,            \* this.isActive
    disposables,         \* this.disposables: the live listener subscriptions
    contextUpdateTimer,  \* this.contextUpdateTimer is set
    \* ---- ContextBuffer (live-context.ts:257-262)
    changes,             \* this.changes
    saves,               \* this.saves
    selections,          \* this.selections
    currentFile,         \* this.currentFile
    \* ---- the host and the remote service, as the stream sees them
    now,                 \* Date.now(), in milliseconds
    textDocuments,       \* vscode.workspace.textDocuments
    activeTextEditor,    \* vscode.window.activeTextEditor
    trackCalls,          \* requests issued through knowledgeHub.trackCodeChange
    contexts,            \* what the last two getLatestContext() calls returned
    \* ---- bookkeeping of the run
    workload,            \* how many notifications of each kind the host sends
    sent,                \* how many it has sent so far
    ingested,            \* every event a handler handed to the buffer, in order
    \* ---- AIProviderDetector.detectProviders
    allExtensions,       \* vscode.extensions.all
    detectedProviders,   \* the list detectProviders() returned
    \* ---- AIProviderDetector.waitForProviderActivation
    extensionState,      \* vscode.extensions.getExtension(id): absent/inactive/active
    calls,               \* the calls of waitForProviderActivation made so far
    \* ---- the stream's life cycle, as the host sees it
    startCalls,          \* calls of startContextTracking() so far
    liveTimers,          \* interval timers created and not cleared
    liveListeners,       \* subscriptions made at the host and not disposed
    \* ---- KnowledgeHubClient.trackCodeChange requests of the stream
    trackOutcomes,       \* how the requests in trackCalls settled, by index
    \* ---- AIEnhancementLayer
    layerActive,         \* this.isActive of the enhancement layer
    settings,            \* the user's settings under 'knowledgehub'
    remote,              \* how the server answers /api/claude-auto/context/enhance
    enhanced,            \* the calls of enhanceAIRequest made so far
    \* ---- detectProviders on metadata of any shape
    metadata,            \* packageJSON of the one installed extension
    detection,           \* how detectProviders() ended
    \* ---- KnowledgeHubClient
    requests,            \* the calls made on the client and how they settled
    outputChannel,       \* the lines the catch blocks of the client append
                         \* to the output channel (the request and response
                         \* log lines of the interceptors are left out)
    \* ---- ContextBridge
    bridgedProviders,    \* this.bridgedProviders: provider id -> entry
    bridgeCalls,         \* the calls of bridgeContextToAI and their results
    \* ---- KnowledgeHubExtension (extension.ts)
    server,              \* how /health answers and whether a session can be made
    activation,          \* how the promise of activate() settled, once made
    registeredCommands,  \* the command ids registered at the host
    toggles,             \* the runs of knowledgehub.enhanceAI so far
    \* ---- calls suspended at an await
    suspendedCalls,      \* enhanceAIRequest calls waiting for the server
    continuations        \* stream handlers waiting at their first await

streamVars == <<isActive, disposables, contextUpdateTimer>>
bufferVars == <<changes, saves, selections, currentFile>>
hostVars == <<now, textDocuments, activeTextEditor, trackCalls, contexts>>
runVars == <<workload, sent, ingested>>
detectVars == <<allExtensions, detectedProviders>>
waitVars == <<extensionState, calls>>
lifeVars == <<startCalls, liveTimers, liveListeners>>
trackVars == <<trackOutcomes>>
enhanceVars == <<layerActive, settings, remote, enhanced>>
shapeVars == <<metadata, detection>>
clientVars == <<requests, outputChannel>>
bridgeVars == <<bridgedProviders, bridgeCalls>>
extensionVars == <<server, activation, registeredCommands, toggles>>
awaitVars == <<suspendedCalls, continuations>>
peerVars ==
    <<trackVars, enhanceVars, shapeVars, clientVars, bridgeVars,
      extensionVars, awaitVars>>
vars ==
    <<streamVars, bufferVars, hostVars, runVars, detectVars, waitVars,
      lifeVars, peerVars>>

(***************************************************************************)
(* Bounds of the model.                                                    *)
(***************************************************************************)
\* A burst workload sends this many notifications more than the list holds.
MaxOverflow == 2
\* Document changes in the timed workload.
MaxChanges == 2
\* Clock advances in the timed workload.
MaxTicks == 2
\* Notifications that arrive while the stream is stopped.
MaxDropped == 2
\* Calls of startContextTracking in one run.
MaxStarts == 2

(***************************************************************************)
(* Program constants.                                                      *)
(***************************************************************************)
maxBufferSize == 100
maxSaves == 50
maxSelections == 20
timerIntervalMs == 5000
defaultMinutes == 10

MsPerMinute == 60 * 1000
hour == 60 * 60 * 1000

Min(a, b) == IF a < b THEN a ELSE b

(***************************************************************************)
(* The host's documents.                                                   *)
(***************************************************************************)
NoEditor == "undefined"
Docs == {"/w/a.ts", "/w/b.py", "Untitled-1"}

\* document.uri.scheme
Scheme(doc) == IF doc = "Untitled-1" THEN "untitled" ELSE "file"

\* document.languageId
LanguageId(doc) ==
    CASE doc = "/w/a.ts" -> "typescript"
      [] doc = "/w/b.py" -> "python"
      [] OTHER -> "plaintext"

\* change.file.split('.').pop() || 'unknown'
FileType(doc) ==
    CASE doc = "/w/a.ts" -> "ts"
      [] doc = "/w/b.py" -> "py"
      [] OTHER -> doc

(***************************************************************************)
(* ContextBuffer (live-context.ts:257-313).                                *)
(***************************************************************************)
\* Array.prototype.slice(-n) for n > 0
SliceLast(s, n) ==
    IF Len(s) <= n THEN s ELSE SubSeq(s, Len(s) - n + 1, Len(s))

\* Array.prototype.filter
Filter(s, keep(_)) == SelectSeq(s, keep)

addChangeKeepOldest(list, change) ==
    LET pushed == Append(list, change)
    IN  IF Len(pushed) > maxBufferSize
        THEN SubSeq(pushed, 1, maxBufferSize)
        ELSE pushed
\* An addChange that puts the new change in front (unshift for push).
addChangePrepending(list, change) ==
    LET pushed == <<change>> \o list
    IN  IF Len(pushed) > maxBufferSize
        THEN SliceLast(pushed, maxBufferSize)
        ELSE pushed
addChange(list, change) ==
    LET pushed == Append(list, change)
    IN  IF Len(pushed) > maxBufferSize
        THEN SliceLast(pushed, maxBufferSize)
        ELSE pushed

addSaveEventUntrimmed(list, file, t) ==
    Append(list, [file |-> file, timestamp |-> t])
addSaveEvent(list, file, t) ==
    LET pushed == Append(list, [file |-> file, timestamp |-> t])
    IN  IF Len(pushed) > maxSaves THEN SliceLast(pushed, maxSaves) ELSE pushed

addSelectionChange(list, selection) ==
    LET pushed == Append(list, selection)
    IN  IF Len(pushed) > maxSelections
        THEN SliceLast(pushed, maxSelections)
        ELSE pushed

getRecentChangesGrowing(list, t, minutes) ==
    LET cutoff == t - (minutes * MsPerMinute)
        recent(change) == change.timestamp < cutoff
    IN  Filter(list, recent)
\* A filter that keeps the change at the cutoff (>= for >).
getRecentChangesInclusive(list, t, minutes) ==
    LET cutoff == t - (minutes * MsPerMinute)
        recent(change) == change.timestamp >= cutoff
    IN  Filter(list, recent)
getRecentChanges(list, t, minutes) ==
    LET cutoff == t - (minutes * MsPerMinute)
        recent(change) == change.timestamp > cutoff
    IN  Filter(list, recent)

getChangesForFile(list, file) ==
    LET same(change) == change.file = file
    IN  Filter(list, same)

getActivitySummary(chs, svs, cur, t) ==
    LET lastHour(e) == e.timestamp > t - hour
    IN  [changesLastHour |-> Len(Filter(chs, lastHour)),
         savesLastHour |-> Len(Filter(svs, lastHour)),
         activeFiles |-> Cardinality({chs[i].file : i \in 1..Len(chs)}),
         currentFile |-> cur]

(***************************************************************************)
(* Workloads: what the host sends during one run.  A burst fills one list  *)
(* past its capacity from a single document; the timed workload is short   *)
(* and lets the clock advance between events and reads; the stopped        *)
(* workload delivers notifications of every kind while the stream is off.  *)
(***************************************************************************)
NoWork ==
    [docs |-> {"/w/a.ts"}, changes |-> 0, saves |-> 0, selections |-> 0,
     editors |-> 0, folders |-> 0, timers |-> 0, ticks |-> 0, reads |-> 0,
     dropped |-> 0]
BurstChanges ==
    [NoWork EXCEPT !.changes = maxBufferSize + MaxOverflow, !.reads = 1]
BurstSaves ==
    [NoWork EXCEPT !.saves = maxSaves + MaxOverflow, !.changes = 1,
                   !.reads = 1]
BurstSelections ==
    [NoWork EXCEPT !.selections = maxSelections + MaxOverflow, !.timers = 1]
Timed ==
    [NoWork EXCEPT !.changes = MaxChanges, !.saves = 1, !.ticks = MaxTicks,
                   !.reads = 2]
Stopped ==
    [NoWork EXCEPT !.docs = Docs, !.changes = 2, !.saves = 1,
                   !.selections = 1, !.editors = 1, !.folders = 1,
                   !.timers = 1, !.dropped = MaxDropped]
Workloads == {BurstChanges, BurstSaves, BurstSelections, Timed, Stopped}

NoneSent ==
    [changes |-> 0, saves |-> 0, selections |-> 0, editors |-> 0,
     folders |-> 0, timers |-> 0, ticks |-> 0, reads |-> 0, dropped |-> 0]

\* The host may send one more notification of this kind; one that arrives
\* while the stream is stopped is dropped by the handler's guard and counts
\* against the workload's dropped notifications.
MaySend(kind) ==
    /\ sent[kind] < workload[kind]
    /\ isActive \/ sent.dropped < workload.dropped

Sent(kind) ==
    IF isActive
    THEN [sent EXCEPT ![kind] = @ + 1]
    ELSE [sent EXCEPT ![kind] = @ + 1, !.dropped = @ + 1]

\* The clock advances by one of these steps (milliseconds).
TickSteps == {1, (defaultMinutes * MsPerMinute) - 1, hour}

(***************************************************************************)
(* LiveContextStream (live-context.ts:18-255).                             *)
(***************************************************************************)
\* contextUpdateTimer === undefined: no interval and the handle of no timer
NoTimer == [interval |-> 0, handle |-> 0]
Listeners ==
    <<"onDidChangeTextDocument", "onDidChangeActiveTextEditor",
      "onDidSaveTextDocument", "onDidChangeWorkspaceFolders",
      "onDidChangeTextEditorSelection">>

\* The host's count of live subscriptions per notification stream.
Occurrences(list, x) == Cardinality({i \in 1..Len(list) : list[i] = x})

NoSubscriptions == [event \in {Listeners[i] : i \in 1..Len(Listeners)} |-> 0]

\* vscode.<...>.onDidX(handler) for each of events: one more subscription
subscribe(live, events) ==
    [event \in DOMAIN live |-> live[event] + Occurrences(events, event)]

\* this.disposables.forEach(disposable => disposable.dispose())
dispose(live, list) ==
    [event \in DOMAIN live |-> live[event] - Occurrences(list, event)]

\* setInterval(callback, ms): the host runs one more timer
setInterval(ms) == [interval |-> ms, handle |-> startCalls + 1]

\* clearInterval(timer)
clearInterval(timer) == liveTimers \ {timer.handle}

\* A start that subscribes and creates a timer whether tracking or not.
startContextTrackingUnguarded ==
    /\ startCalls < MaxStarts
    /\ startCalls' = startCalls + 1
    /\ isActive' = TRUE
    /\ disposables' = disposables \o Listeners
    /\ liveListeners' = subscribe(liveListeners, Listeners)
    /\ contextUpdateTimer' = setInterval(timerIntervalMs)
    /\ liveTimers' = liveTimers \cup {startCalls + 1}
    /\ UNCHANGED <<bufferVars, hostVars, runVars, detectVars, waitVars,
                   peerVars>>

\* startContextTracking(): no await in its body, so it runs to completion.
startContextTracking ==
    /\ startCalls < MaxStarts
    /\ startCalls' = startCalls + 1
    /\ IF isActive
       THEN UNCHANGED <<streamVars, liveTimers, liveListeners>>
       ELSE /\ isActive' = TRUE
            /\ disposables' = disposables \o Listeners
            /\ liveListeners' = subscribe(liveListeners, Listeners)
            /\ contextUpdateTimer' = setInterval(timerIntervalMs)
            /\ liveTimers' = liveTimers \cup {contextUpdateTimer'.handle}
    /\ UNCHANGED <<bufferVars, hostVars, runVars, detectVars, waitVars,
                   peerVars>>

stopClearingBuffer ==
    /\ isActive' = FALSE
    /\ liveListeners' = dispose(liveListeners, disposables)
    /\ disposables' = <<>>
    /\ contextUpdateTimer' = NoTimer
    /\ changes' = <<>>
    /\ saves' = <<>>
    /\ UNCHANGED <<selections, currentFile>>
    /\ liveTimers' = IF contextUpdateTimer = NoTimer THEN liveTimers
                     ELSE clearInterval(contextUpdateTimer)
    /\ UNCHANGED <<hostVars, runVars, detectVars, waitVars, startCalls,
                   peerVars>>

\* A stop that forgets the listeners without disposing them.
stopKeepingListeners ==
    /\ isActive' = FALSE
    /\ disposables' = <<>>
    /\ liveTimers' = IF contextUpdateTimer = NoTimer THEN liveTimers
                     ELSE clearInterval(contextUpdateTimer)
    /\ contextUpdateTimer' = NoTimer
    /\ UNCHANGED <<bufferVars, hostVars, runVars, detectVars, waitVars,
                   startCalls, liveListeners, peerVars>>

\* A stop that leaves the timer running.
stopKeepingTimer ==
    /\ isActive' = FALSE
    /\ liveListeners' = dispose(liveListeners, disposables)
    /\ disposables' = <<>>
    /\ UNCHANGED <<contextUpdateTimer, bufferVars, hostVars, runVars,
                   detectVars, waitVars, startCalls, liveTimers, peerVars>>

stop ==
    /\ isActive' = FALSE
    /\ liveListeners' = dispose(liveListeners, disposables)
    /\ disposables' = <<>>
    /\ liveTimers' = IF contextUpdateTimer = NoTimer THEN liveTimers
                     ELSE clearInterval(contextUpdateTimer)
    /\ contextUpdateTimer' = NoTimer
    /\ UNCHANGED <<bufferVars, hostVars, runVars, detectVars, waitVars,
                   startCalls, peerVars>>

\* The getters of ContextBuffer (getRecentChanges, getChangesForFile,
\* getActivitySummary) assign to no field.
ReadBufferPruning ==
    /\ changes' = getRecentChanges(changes, now, defaultMinutes)
    /\ UNCHANGED <<saves, selections, currentFile>>
ReadBuffer == UNCHANGED bufferVars

\* Array.from(new Set(xs)): the distinct elements in first-occurrence order
RECURSIVE Distinct(_)
Distinct(xs) ==
    IF xs = <<>> THEN <<>>
    ELSE LET h == Head(xs)
             differs(x) == x # h
         IN  <<h>> \o Distinct(Filter(Tail(xs), differs))

Map(xs, f(_)) == [i \in 1..Len(xs) |-> f(xs[i])]

getCurrentFocus ==
    IF activeTextEditor = NoEditor
    THEN "No active file"
    ELSE [language |-> LanguageId(activeTextEditor),
          fileName |-> activeTextEditor]

getActiveLanguages == {LanguageId(d) : d \in textDocuments}

getProjectState ==
    [openFiles |-> Cardinality(textDocuments),
     languages |-> getActiveLanguages,
     recentActivity |-> getActivitySummary(changes, saves, currentFile, now)]

getActivePatterns ==
    LET recentChanges == getRecentChanges(changes, now, defaultMinutes)
        lang(change) == change.language
        type(change) == FileType(change.file)
        development(l) == <<l, "development">>
        files(t) == <<t, "files">>
    IN  Map(Distinct(Map(recentChanges, lang)), development)
            \o Map(Distinct(Map(recentChanges, type)), files)

getLatestContext ==
    [recentChanges |-> getRecentChanges(changes, now, defaultMinutes),
     currentFocus |-> getCurrentFocus,
     projectState |-> getProjectState,
     activePatterns |-> getActivePatterns]

Counts(log) ==
    [changes |-> Len(log.changes), saves |-> Len(log.saves),
     selections |-> Len(log.selections)]

\* A caller (the test suite, the enhancement layer) awaits getLatestContext().
GetLatestContext ==
    /\ sent.reads < workload.reads
    /\ sent' = [sent EXCEPT !.reads = @ + 1]
    /\ contexts' = SliceLast(
           Append(contexts,
                  [context |-> getLatestContext, at |-> now,
                   ingested |-> Counts(ingested)]), 2)
    /\ ReadBuffer
    /\ UNCHANGED <<streamVars, now, textDocuments, activeTextEditor,
                   trackCalls, workload, ingested, detectVars,
                   lifeVars, peerVars, waitVars>>

onDocumentChangeUnguarded(document) ==
    /\ MaySend("changes")
    /\ sent' = Sent("changes")
    /\ IF Scheme(document) # "file"
       THEN UNCHANGED <<changes, trackCalls, ingested>>
       ELSE LET change == [file |-> document,
                           changes |-> sent.changes + 1,
                           timestamp |-> now,
                           language |-> LanguageId(document)]
            IN  /\ changes' = addChange(changes, change)
                /\ trackCalls' = Append(trackCalls,
                       [file |-> document, changes |-> sent.changes + 1,
                        timestamp |-> now])
                /\ ingested' = [ingested EXCEPT
                                    !.changes = Append(@, change)]
    /\ UNCHANGED <<streamVars, saves, selections, currentFile, now,
                   textDocuments, activeTextEditor, contexts, workload,
                   detectVars, lifeVars, peerVars, waitVars>>
\* onDocumentChange(event): event.contentChanges is the host's change number.
onDocumentChange(document) ==
    /\ MaySend("changes")
    /\ sent' = Sent("changes")
    /\ IF ~isActive \/ Scheme(document) # "file"
       THEN UNCHANGED <<changes, trackCalls, ingested>>
       ELSE LET change == [file |-> document,
                           changes |-> sent.changes + 1,
                           timestamp |-> now,
                           language |-> LanguageId(document)]
            IN  /\ changes' = addChange(changes, change)
                /\ trackCalls' = Append(trackCalls,
                       [file |-> document, changes |-> sent.changes + 1,
                        timestamp |-> now])
                /\ ingested' = [ingested EXCEPT
                                    !.changes = Append(@, change)]
    /\ UNCHANGED <<streamVars, saves, selections, currentFile, now,
                   textDocuments, activeTextEditor, contexts, workload,
                   detectVars, lifeVars, peerVars, waitVars>>

\* onEditorChange(editor): the host has already switched its active editor.
onEditorChange(editor) ==
    /\ MaySend("editors")
    /\ sent' = Sent("editors")
    /\ activeTextEditor' = editor
    /\ IF ~isActive \/ editor = NoEditor
       THEN UNCHANGED currentFile
       ELSE currentFile' = editor
    /\ UNCHANGED <<streamVars, changes, saves, selections, now,
                   textDocuments, trackCalls, contexts, workload, ingested,
                   detectVars, lifeVars, peerVars, waitVars>>

\* onDocumentSave(document), with analyzeChangesOnSave's getChangesForFile.
onDocumentSave(document) ==
    /\ MaySend("saves")
    /\ sent' = Sent("saves")
    /\ IF ~isActive \/ Scheme(document) # "file"
       THEN UNCHANGED <<saves, ingested>>
       ELSE /\ saves' = addSaveEvent(saves, document, now)
            /\ ingested' = [ingested EXCEPT !.saves =
                               Append(@, [file |-> document,
                                          timestamp |-> now])]
    /\ UNCHANGED <<streamVars, changes, selections, currentFile, hostVars,
                   workload, detectVars, lifeVars, peerVars, waitVars>>

\* onWorkspaceFolderChange(event): updateProjectState() is empty.
onWorkspaceFolderChange ==
    /\ MaySend("folders")
    /\ sent' = Sent("folders")
    /\ UNCHANGED <<streamVars, bufferVars, hostVars, workload, ingested,
                   detectVars, lifeVars, peerVars, waitVars>>

\* onSelectionChange(event): event.selections[0] is the host's selection
\* number.
onSelectionChange(document) ==
    /\ MaySend("selections")
    /\ sent' = Sent("selections")
    /\ IF ~isActive
       THEN UNCHANGED <<selections, ingested>>
       ELSE LET selection == [file |-> document,
                              selection |-> sent.selections + 1,
                              timestamp |-> now]
            IN  /\ selections' = addSelectionChange(selections, selection)
                /\ ingested' = [ingested EXCEPT
                                    !.selections = Append(@, selection)]
    /\ UNCHANGED <<streamVars, changes, saves, currentFile, hostVars,
                   workload, detectVars, lifeVars, peerVars, waitVars>>

\* updateContextPeriodically(): the context it reads is not used.
updateContextPeriodically ==
    /\ MaySend("timers")
    /\ sent' = Sent("timers")
    /\ IF ~isActive THEN UNCHANGED bufferVars ELSE ReadBuffer
    /\ UNCHANGED <<streamVars, hostVars, workload, ingested, detectVars,
                   lifeVars, peerVars,
                   waitVars>>

\* The wall clock advances.
Tick(step) ==
    /\ sent.ticks < workload.ticks
    /\ sent' = [sent EXCEPT !.ticks = @ + 1]
    /\ now' = now + step
    /\ UNCHANGED <<streamVars, bufferVars, textDocuments, activeTextEditor,
                   trackCalls, contexts, workload, ingested, detectVars,
                   lifeVars, peerVars,
                   waitVars>>

DetectIdle == allExtensions = <<>> /\ detectedProviders = <<>>
LifeIdle ==
    startCalls = 0 /\ liveTimers = {} /\ liveListeners = NoSubscriptions
TrackIdle == trackOutcomes = [i \in {} |-> ""]
ClientIdle == requests = <<>> /\ outputChannel = <<>>
EnhanceIdle ==
    /\ layerActive = FALSE
    /\ settings = [key \in {} |-> ""]
    /\ remote = [ok |-> FALSE, data |-> [key \in {} |-> ""]]
    /\ enhanced = <<>>
ShapesIdle == metadata = [t |-> "undefined"] /\ detection = "none"
BridgeIdle == bridgedProviders = [id \in {} |-> ""] /\ bridgeCalls = <<>>
NoServer == [health |-> "unreachable", session |-> FALSE]
NotActivated == [promise |-> "none", succeeded |-> FALSE]
ExtensionIdle ==
    /\ server = NoServer
    /\ activation = NotActivated
    /\ registeredCommands = {}
    /\ toggles = <<>>
AwaitIdle == suspendedCalls = <<>> /\ continuations = <<>>
PeersIdle ==
    /\ TrackIdle /\ EnhanceIdle /\ ShapesIdle /\ ClientIdle /\ BridgeIdle
    /\ ExtensionIdle /\ AwaitIdle
WaitIdle == extensionState = "absent" /\ calls = <<>>

Init ==
    /\ isActive = FALSE
    /\ disposables = <<>>
    /\ contextUpdateTimer = NoTimer
    /\ changes = <<>>
    /\ saves = <<>>
    /\ selections = <<>>
    /\ currentFile = ""
    /\ now = 0
    /\ workload \in Workloads
    /\ textDocuments = workload.docs
    /\ activeTextEditor = NoEditor
    /\ trackCalls = <<>>
    /\ contexts = <<>>
    /\ sent = NoneSent
    /\ ingested = [changes |-> <<>>, saves |-> <<>>, selections |-> <<>>]
    /\ DetectIdle
    /\ WaitIdle
    /\ LifeIdle
    /\ PeersIdle

Next ==
    \/ startContextTracking
    \/ stop
    \/ GetLatestContext
    \/ \E document \in textDocuments : onDocumentChange(document)
    \/ \E editor \in textDocuments \cup {NoEditor} : onEditorChange(editor)
    \/ \E document \in textDocuments : onDocumentSave(document)
    \/ onWorkspaceFolderChange
    \/ \E document \in textDocuments : onSelectionChange(document)
    \/ updateContextPeriodically
    \/ \E step \in TickSteps : Tick(step)

Spec == Init /\ [][Next]_vars

(***************************************************************************)
(* Properties of the live context stream, checked under Spec.              *)
(***************************************************************************)
\* The last n elements of a log, by index.
LastN(log, n) ==
    LET k == Min(Len(log), n)
    IN  [i \in 1..k |-> log[Len(log) - k + i]]

IsSuffix(s, t) ==
    /\ Len(s) <= Len(t)
    /\ \A i \in 1..Len(s) : s[i] = t[Len(t) - Len(s) + i]

HandlerInvoked ==
    \E kind \in {"changes", "editors", "saves", "selections", "timers"} :
        sent'[kind] = sent[kind] + 1

\* C3: while the stream is stopped, a call of onDocumentChange,
\* onEditorChange, onDocumentSave, onSelectionChange or of the timer
\* callback changes nothing in the buffer and issues no trackCodeChange
\* call.
C3_StoppedIgnoresEvents ==
    [][(~isActive /\ HandlerInvoked)
          => UNCHANGED <<bufferVars, trackCalls>>]_vars

\* Change 1 was ingested, the stream was stopped, and change 2 was dropped.
C3_Witness ==
    /\ ~isActive
    /\ Len(ingested.changes) = 1
    /\ ingested.changes[1].changes = 1
    /\ sent = [NoneSent EXCEPT !.changes = 2, !.dropped = 1]
    /\ changes = ingested.changes
    /\ Len(trackCalls) = 1

\* C8: getLatestContext (called directly or by the periodic timer) and the
\* buffer's getters leave changes, saves, selections and currentFile as they
\* were; a save, which calls getChangesForFile, leaves changes as it was.
C8_ReadsLeaveBuffer ==
    [][/\ (sent'.reads # sent.reads \/ sent'.timers # sent.timers)
            => UNCHANGED bufferVars
       /\ sent'.saves # sent.saves
            => UNCHANGED <<changes, selections, currentFile>>]_vars

\* A read returned fewer changes than the buffer still holds.
C8_Witness ==
    /\ contexts # <<>>
    /\ contexts[Len(contexts)].ingested = Counts(ingested)
    /\ Len(contexts[Len(contexts)].context.recentChanges) < Len(changes)

SameSnapshot(a, b) ==
    /\ a.context.recentChanges = b.context.recentChanges
    /\ a.context.projectState.recentActivity.changesLastHour
         = b.context.projectState.recentActivity.changesLastHour
    /\ a.context.projectState.recentActivity.savesLastHour
         = b.context.projectState.recentActivity.savesLastHour

ConsecutiveReads ==
    /\ Len(contexts) = 2
    /\ contexts[1].ingested = contexts[2].ingested

\* C9 as claimed: two consecutive snapshots with no ingestion between them
\* are equal, whatever time elapses between the two calls.
C9_EqualWhateverTimeElapses ==
    ConsecutiveReads => SameSnapshot(contexts[1], contexts[2])

\* C9 as the code has it: two consecutive snapshots with no ingestion
\* between them are equal when the clock reads the same at both calls; when
\* time has elapsed, the second recentChanges is a suffix of the first and
\* the last-hour counts are no larger.
C9_EqualAtSameInstant ==
    ConsecutiveReads =>
        LET a == contexts[1]
            b == contexts[2]
        IN  /\ a.at = b.at => SameSnapshot(a, b)
            /\ IsSuffix(b.context.recentChanges, a.context.recentChanges)
            /\ b.context.projectState.recentActivity.changesLastHour
                 <= a.context.projectState.recentActivity.changesLastHour
            /\ b.context.projectState.recentActivity.savesLastHour
                 <= a.context.projectState.recentActivity.savesLastHour

\* Between two reads a change left the ten-minute window.
C9_Witness ==
    /\ ConsecutiveReads
    /\ contexts[2].at > contexts[1].at
    /\ Len(contexts[2].context.recentChanges)
         < Len(contexts[1].context.recentChanges)

(***************************************************************************)
(* Strings, as String.prototype has them.                                  *)
(***************************************************************************)
Lowercase == "abcdefghijklmnopqrstuvwxyz"
Uppercase == "ABCDEFGHIJKLMNOPQRSTUVWXYZ"

CharAt(s, i) == SubSeq(s, i, i)

\* String.prototype.toLowerCase
LowerTable ==
    [c \in {CharAt(Uppercase, i) : i \in 1..Len(Uppercase)} |->
        CharAt(Lowercase, CHOOSE i \in 1..Len(Uppercase) :
                              CharAt(Uppercase, i) = c)]

LowerChar(c) == IF c \in DOMAIN LowerTable THEN LowerTable[c] ELSE c

RECURSIVE toLowerCase(_)
toLowerCase(s) ==
    IF s = "" THEN ""
    ELSE LowerChar(CharAt(s, 1)) \o toLowerCase(SubSeq(s, 2, Len(s)))

\* String.prototype.includes
includes(text, keyword) ==
    \E i \in 1..(Len(text) - Len(keyword) + 1) :
        SubSeq(text, i, i + Len(keyword) - 1) = keyword

\* Array.prototype.join(' ')
RECURSIVE join(_)
join(words) ==
    IF words = <<>> THEN ""
    ELSE IF Len(words) = 1 THEN words[1]
    ELSE words[1] \o " " \o join(Tail(words))

\* The characters of the model's names in the order of the default
\* collation: white space, punctuation, digits, letters.
CollationOrder == " -:.()0123456789abcdefghijklmnopqrstuvwxyz"

WeightTable ==
    [c \in {CharAt(CollationOrder, i) : i \in 1..Len(CollationOrder)} |->
        CHOOSE i \in 1..Len(CollationOrder) : CharAt(CollationOrder, i) = c]

PrimaryWeight(c) == WeightTable[LowerChar(c)]

IsUpper(c) == c \in DOMAIN LowerTable

\* The first index at which the two strings differ at the given level
\* (0: none within the shorter one).
FirstDifference(a, b, level(_)) ==
    LET n == Min(Len(a), Len(b))
        D == {i \in 1..n : level(CharAt(a, i)) # level(CharAt(b, i))}
    IN  IF D = {} THEN 0 ELSE CHOOSE i \in D : \A j \in D : i <= j

\* String.prototype.localeCompare under the default collation: letters
\* compare without case first; strings that differ only in case put the
\* lower-case letter first.
localeCompare(a, b) ==
    LET p == FirstDifference(a, b, PrimaryWeight)
        caseOf(c) == IF IsUpper(c) THEN 1 ELSE 0
        t == FirstDifference(a, b, caseOf)
    IN  IF p # 0
        THEN IF PrimaryWeight(CharAt(a, p)) < PrimaryWeight(CharAt(b, p))
             THEN -1 ELSE 1
        ELSE IF Len(a) # Len(b)
        THEN IF Len(a) < Len(b) THEN -1 ELSE 1
        ELSE IF t # 0
        THEN IF IsUpper(CharAt(b, t)) THEN -1 ELSE 1
        ELSE 0

\* Array.prototype.sort((a, b) => a.displayName.localeCompare(b.displayName)):
\* the sort is stable; here by insertion.
RECURSIVE InsertByDisplayName(_, _)
InsertByDisplayName(sorted, x) ==
    IF sorted = <<>> THEN <<x>>
    ELSE IF localeCompare(x.displayName, Head(sorted).displayName) < 0
    THEN <<x>> \o sorted
    ELSE <<Head(sorted)>> \o InsertByDisplayName(Tail(sorted), x)

RECURSIVE sortByDisplayName(_)
sortByDisplayName(xs) ==
    IF xs = <<>> THEN <<>>
    ELSE InsertByDisplayName(sortByDisplayName(SubSeq(xs, 1, Len(xs) - 1)),
                             xs[Len(xs)])

(***************************************************************************)
(* AIProviderDetector (ai-provider-detector.ts).                           *)
(***************************************************************************)
\* initializeKnownProviders(): the allow-list, in insertion order.
knownProviders ==
    <<[id |-> "github.copilot", name |-> "github.copilot",
       displayName |-> "GitHub Copilot",
       capabilities |-> <<"code-completion", "inline-completion", "chat">>,
       apiMethods |-> <<"getCompletions", "getInlineCompletions">>],
      [id |-> "continue.continue", name |-> "continue.continue",
       displayName |-> "Continue (Cline)",
       capabilities |-> <<"chat", "code-generation", "context-aware">>,
       apiMethods |-> <<"registerContextProvider", "addContextProvider">>],
      [id |-> "anthropic.claude-dev", name |-> "anthropic.claude-dev",
       displayName |-> "Claude Dev",
       capabilities |-> <<"chat", "code-generation", "file-operations">>,
       apiMethods |-> <<"addContextProvider", "registerProvider">>],
      [id |-> "codeium.codeium", name |-> "codeium.codeium",
       displayName |-> "Codeium",
       capabilities |-> <<"code-completion", "inline-completion">>,
       apiMethods |-> <<"provideInlineCompletionItems">>],
      [id |-> "tabnine.tabnine-vscode", name |-> "tabnine.tabnine-vscode",
       displayName |-> "TabNine",
       capabilities |-> <<"code-completion", "inline-completion">>,
       apiMethods |-> <<"provideCompletionItems">>],
      [id |-> "visualstudioexptteam.vscodeintellicode",
       name |-> "visualstudioexptteam.vscodeintellicode",
       displayName |-> "Visual Studio IntelliCode",
       capabilities |-> <<"code-completion", "suggestions">>,
       apiMethods |-> <<"provideCompletionItems">>],
      [id |-> "kiteco.kite", name |-> "kiteco.kite",
       displayName |-> "Kite",
       capabilities |-> <<"code-completion", "documentation">>,
       apiMethods |-> <<"provideCompletionItems">>],
      [id |-> "amazonwebservices.aws-toolkit-vscode",
       name |-> "amazonwebservices.aws-toolkit-vscode",
       displayName |-> "AWS CodeWhisperer",
       capabilities |-> <<"code-completion", "inline-completion">>,
       apiMethods |-> <<"provideInlineCompletionItems">>],
      [id |-> "jetbrains.ai-assistant", name |-> "jetbrains.ai-assistant",
       displayName |-> "JetBrains AI Assistant",
       capabilities |-> <<"chat", "code-generation">>,
       apiMethods |-> <<"registerProvider">>],
      [id |-> "aider.aider-vscode", name |-> "aider.aider-vscode",
       displayName |-> "Aider",
       capabilities |-> <<"chat", "code-generation", "git-aware">>,
       apiMethods |-> <<"registerContextProvider">>]>>

\* this.knownProviders.has(id)
isKnownProvider(providerId) ==
    \E k \in 1..Len(knownProviders) : knownProviders[k].id = providerId

\* An object without properties.
EmptyObject == [key \in {} |-> ""]

\* object.key || fallback, for a string property ('' is falsy)
StringOr(object, key, fallback) ==
    IF key \in DOMAIN object
    THEN IF object[key] = "" THEN fallback ELSE object[key]
    ELSE fallback

\* object.key || fallback, for an array or object property (always truthy)
ValueOr(object, key, fallback) ==
    IF key \in DOMAIN object THEN object[key] ELSE fallback

aiKeywords ==
    <<"ai", "artificial intelligence", "machine learning", "ml",
      "copilot", "assistant", "autocomplete", "completion",
      "smart", "intelligent", "suggestion", "predict",
      "claude", "gpt", "openai", "anthropic", "codeium",
      "tabnine", "kite", "intellicode", "codewhisperer">>

containsAIKeywords(text) ==
    LET lowerText == toLowerCase(text)
    IN  \E k \in 1..Len(aiKeywords) : includes(lowerText, aiKeywords[k])

aiCategories ==
    <<"AI", "Machine Learning", "Artificial Intelligence",
      "Productivity", "Code Completion", "Assistant">>

\* aiCat.toLowerCase(), for each of them
aiCategoriesLower ==
    [k \in 1..Len(aiCategories) |-> toLowerCase(aiCategories[k])]

hasAICategory(categories) ==
    \E c \in 1..Len(categories) :
        LET category == toLowerCase(categories[c])
        IN  \E k \in 1..Len(aiCategories) :
                includes(category, aiCategoriesLower[k])

aiCommandKeywords ==
    <<"complete", "suggest", "ai", "assistant", "generate",
      "chat", "ask", "help", "smart", "auto">>

hasAICommands(commands) ==
    \E c \in 1..Len(commands) :
        LET command == toLowerCase(StringOr(commands[c], "command", ""))
            title == toLowerCase(StringOr(commands[c], "title", ""))
        IN  \E k \in 1..Len(aiCommandKeywords) :
                \/ includes(command, aiCommandKeywords[k])
                \/ includes(title, aiCommandKeywords[k])

hasCompletionProviders(contributes) ==
    \/ "completionProviders" \in DOMAIN contributes
    \/ "inlineCompletionProviders" \in DOMAIN contributes
    \/ "languages" \in DOMAIN contributes

\* packageJSON.contributes?.commands || []
CommandsOf(packageJSON) ==
    ValueOr(ValueOr(packageJSON, "contributes", EmptyObject), "commands",
            <<>>)

\* The indicators array of isLikelyAIProvider.
indicators(extension) ==
    LET packageJSON == extension.packageJSON
    IN  <<containsAIKeywords(StringOr(packageJSON, "description", "")),
          containsAIKeywords(StringOr(packageJSON, "displayName", "")),
          containsAIKeywords(join(ValueOr(packageJSON, "keywords", <<>>))),
          hasAICategory(ValueOr(packageJSON, "categories", <<>>)),
          hasAICommands(CommandsOf(packageJSON)),
          hasCompletionProviders(
              ValueOr(packageJSON, "contributes", EmptyObject))>>

\* indicators.filter(Boolean).length
CountTrue(flags) == Cardinality({i \in 1..Len(flags) : flags[i]})

isLikelyAIProviderAny(extension) == CountTrue(indicators(extension)) >= 1
isLikelyAIProvider(extension) == CountTrue(indicators(extension)) >= 2

\* An inferCapabilities that pushes 'unknown' without testing the length.
inferCapabilitiesUnknownToo(extension) ==
    LET contributes ==
            ValueOr(extension.packageJSON, "contributes", EmptyObject)
        commands == ValueOr(contributes, "commands", <<>>)
        completion ==
            IF \/ "completionProviders" \in DOMAIN contributes
               \/ "inlineCompletionProviders" \in DOMAIN contributes
            THEN <<"code-completion">> ELSE <<>>
        chat ==
            IF \E c \in 1..Len(commands) :
                   \/ includes(toLowerCase(
                          StringOr(commands[c], "title", "")), "chat")
                   \/ includes(toLowerCase(
                          StringOr(commands[c], "command", "")), "chat")
            THEN <<"chat">> ELSE <<>>
    IN  completion \o chat \o <<"unknown">>

inferCapabilities(extension) ==
    LET contributes ==
            ValueOr(extension.packageJSON, "contributes", EmptyObject)
        commands == ValueOr(contributes, "commands", <<>>)
        completion ==
            IF \/ "completionProviders" \in DOMAIN contributes
               \/ "inlineCompletionProviders" \in DOMAIN contributes
            THEN <<"code-completion">> ELSE <<>>
        chat ==
            IF \E c \in 1..Len(commands) :
                   \/ includes(toLowerCase(
                          StringOr(commands[c], "title", "")), "chat")
                   \/ includes(toLowerCase(
                          StringOr(commands[c], "command", "")), "chat")
            THEN <<"chat">> ELSE <<>>
        capabilities == completion \o chat
    IN  IF Len(capabilities) = 0 THEN <<"unknown">> ELSE capabilities

\* allExtensions.find(ext => ext.id === extensionId)
find(extensions, extensionId) ==
    LET I == {i \in 1..Len(extensions) : extensions[i].id = extensionId}
    IN  extensions[CHOOSE i \in I : \A j \in I : i <= j]

knownDescriptor(providerInfo, extension) ==
    [id |-> providerInfo.id,
     name |-> providerInfo.name,
     displayName |-> providerInfo.displayName,
     isActive |-> extension.isActive,
     version |-> StringOr(extension.packageJSON, "version", "unknown"),
     capabilities |-> providerInfo.capabilities]

unknownDescriptor(extension) ==
    [id |-> extension.id,
     name |-> extension.id,
     displayName |->
         StringOr(extension.packageJSON, "displayName", extension.id),
     isActive |-> extension.isActive,
     version |-> StringOr(extension.packageJSON, "version", "unknown"),
     capabilities |-> inferCapabilities(extension)]

\* The first loop of detectProviders: one descriptor for each allow-list
\* entry that is installed, in the order of the allow-list.
detectKnownProviders(extensions) ==
    LET installed(providerInfo) ==
            \E i \in 1..Len(extensions) : extensions[i].id = providerInfo.id
        present == SelectSeq(knownProviders, installed)
    IN  [k \in 1..Len(present) |->
            knownDescriptor(present[k], find(extensions, present[k].id))]

detectUnknownAIProvidersAlsoKnown(extensions) ==
    LET likely(extension) == isLikelyAIProvider(extension)
        found == SelectSeq(extensions, likely)
    IN  [k \in 1..Len(found) |-> unknownDescriptor(found[k])]
detectUnknownAIProviders(extensions) ==
    LET likely(extension) ==
            ~isKnownProvider(extension.id) /\ isLikelyAIProvider(extension)
        found == SelectSeq(extensions, likely)
    IN  [k \in 1..Len(found) |-> unknownDescriptor(found[k])]

detectProvidersUnsorted(extensions) ==
    detectKnownProviders(extensions) \o detectUnknownAIProviders(extensions)
detectProviders(extensions) ==
    sortByDisplayName(
        detectKnownProviders(extensions)
            \o detectUnknownAIProviders(extensions))

(***************************************************************************)
(* The installed extensions detectProviders() is run on: one extension     *)
(* outside the allow-list with every combination of metadata, and lists of *)
(* allow-list members, near misses and records that share an id.           *)
(***************************************************************************)
\* Extensions installed together.
MaxExtensions == 3

Extension(id, active, packageJSON) ==
    [id |-> id, isActive |-> active, packageJSON |-> packageJSON]

VariedId == "acme.fmt"

VariedContributes ==
    {commands @@ providers :
        commands \in
            {EmptyObject,
             [commands |-> <<[command |-> "fmt.run", title |-> "Run"]>>],
             [commands |-> <<[command |-> "fmt.run", title |-> "Run"],
                             [command |-> "fmt.chat",
                              title |-> "Open Chat"]>>],
             [commands |-> <<[command |-> "fmt.openChat",
                              title |-> "Open Assistant"]>>],
             [commands |-> <<[command |-> "fmt.talk",
                              title |-> "Live Chat"]>>]},
        providers \in
            {EmptyObject,
             [completionProviders |-> <<"typescript">>],
             [inlineCompletionProviders |-> <<"typescript">>],
             [languages |-> <<"typescript">>]}}

VariedPackages ==
    {description @@ displayName @@ keywords @@ categories @@ contributes :
        description \in {EmptyObject, [description |-> "Chat with AI"]},
        displayName \in {EmptyObject, [displayName |-> "AI2 Format"]},
        keywords \in {EmptyObject, [keywords |-> <<"format", "gpt">>]},
        categories \in {[categories |-> <<"Formatters">>],
                        [categories |-> <<"Machine Learning">>]},
        contributes \in
            {IF c = EmptyObject THEN EmptyObject ELSE [contributes |-> c] :
                c \in VariedContributes}}

VariedExtensions ==
    {Extension(VariedId, FALSE, packageJSON) : packageJSON \in VariedPackages}

OtherExtensions ==
    {\* on the allow-list, with metadata of its own
     Extension("github.copilot", TRUE,
               [displayName |-> "My Copilot",
                description |-> "AI pair programmer",
                version |-> "1.2.3"]),
     \* on the allow-list, without metadata
     Extension("continue.continue", FALSE, EmptyObject),
     \* not on the allow-list: the id differs in case
     Extension("GitHub.copilot", TRUE,
               [displayName |-> "GitHub Copilot",
                description |-> "AI pair programmer",
                version |-> "1.2.3"]),
     Extension("acme.ai-notes", FALSE,
               [displayName |-> "AI: Notes",
                description |-> "Note assistant"]),
     Extension("acme.lint", TRUE,
               [displayName |-> "Lint",
                categories |-> <<"Linters">>]),
     \* a second record with the id of the varied extension
     Extension(VariedId, TRUE,
               [displayName |-> "ai format",
                description |-> "Smart completion",
                contributes |-> [completionProviders |-> <<"python">>]])}

\* Two of the varied records, to stand among the others.
VariedPlain == Extension(VariedId, FALSE, [categories |-> <<"Formatters">>])
VariedNamed ==
    Extension(VariedId, FALSE,
              [displayName |-> "AI2 Format",
               categories |-> <<"Machine Learning">>])

InstalledLists ==
    {<<e>> : e \in VariedExtensions}
        \cup UNION {[1..n -> OtherExtensions \cup {VariedPlain, VariedNamed}] :
                       n \in 0..MaxExtensions}

StreamIdleUnder(work) ==
    /\ isActive = FALSE
    /\ disposables = <<>>
    /\ contextUpdateTimer = NoTimer
    /\ changes = <<>>
    /\ saves = <<>>
    /\ selections = <<>>
    /\ currentFile = ""
    /\ now = 0
    /\ workload = work
    /\ textDocuments = work.docs
    /\ activeTextEditor = NoEditor
    /\ trackCalls = <<>>
    /\ contexts = <<>>
    /\ sent = NoneSent
    /\ ingested = [changes |-> <<>>, saves |-> <<>>, selections |-> <<>>]
    /\ LifeIdle

StreamIdle == StreamIdleUnder(NoWork)

InitDetect ==
    /\ StreamIdle
    /\ PeersIdle
    /\ allExtensions \in InstalledLists
    /\ detectedProviders = <<>>
    /\ WaitIdle

\* One call of detectProviders(); vscode.extensions.all is read once.
DetectProviders ==
    /\ detectedProviders = <<>>
    /\ detectedProviders' = <<detectProviders(allExtensions)>>
    /\ UNCHANGED <<streamVars, bufferVars, hostVars, runVars, allExtensions,
                   waitVars, lifeVars, peerVars>>

NextDetect == DetectProviders

SpecDetect == InitDetect /\ [][NextDetect]_vars

(***************************************************************************)
(* Properties of detectProviders, checked under SpecDetect.                *)
(***************************************************************************)
Detected == detectedProviders[1]
DetectCalled == detectedProviders # <<>>

\* The extension is in the returned list as a heuristically detected one.
EmittedAsUnknown(extension) ==
    \E j \in 1..Len(Detected) :
        /\ Detected[j].id = extension.id
        /\ Detected[j].name = extension.id
        /\ Detected[j].displayName =
               StringOr(extension.packageJSON, "displayName", extension.id)
        /\ Detected[j].capabilities = inferCapabilities(extension)

One(b) == IF b THEN 1 ELSE 0

\* The four indicators as the claim groups them.
FourIndicators(extension) ==
    LET p == extension.packageJSON
        c == ValueOr(p, "contributes", EmptyObject)
    IN  One(\/ containsAIKeywords(StringOr(p, "description", ""))
            \/ containsAIKeywords(StringOr(p, "displayName", ""))
            \/ containsAIKeywords(join(ValueOr(p, "keywords", <<>>))))
        + One(hasAICategory(ValueOr(p, "categories", <<>>)))
        + One(hasAICommands(ValueOr(c, "commands", <<>>)))
        + One(\/ "completionProviders" \in DOMAIN c
              \/ "inlineCompletionProviders" \in DOMAIN c)

\* The six entries the code counts: description, display name and keywords
\* each on their own, and a languages contribution like a completion one.
SixIndicators(extension) ==
    LET p == extension.packageJSON
        c == ValueOr(p, "contributes", EmptyObject)
    IN  One(containsAIKeywords(StringOr(p, "description", "")))
        + One(containsAIKeywords(StringOr(p, "displayName", "")))
        + One(containsAIKeywords(join(ValueOr(p, "keywords", <<>>))))
        + One(hasAICategory(ValueOr(p, "categories", <<>>)))
        + One(hasAICommands(ValueOr(c, "commands", <<>>)))
        + One(\/ "completionProviders" \in DOMAIN c
              \/ "inlineCompletionProviders" \in DOMAIN c
              \/ "languages" \in DOMAIN c)

\* C4 as claimed: an extension outside the allow-list is classified as a
\* provider iff at least 2 of the 4 indicators (AI term in description,
\* display name or keywords; AI category; AI command; completion or inline
\* completion contribution) are true.
C4_TwoOfFourIndicators ==
    DetectCalled =>
        \A i \in 1..Len(allExtensions) :
            LET e == allExtensions[i]
            IN  ~isKnownProvider(e.id) =>
                    (EmittedAsUnknown(e) <=> FourIndicators(e) >= 2)

\* C4 as the code has it: classified iff at least 2 of the 6 entries are
\* true; with fewer than 2 of the 4 grouped indicators an extension is
\* classified only through two matching text fields or a languages
\* contribution.
C4_TwoOfSixIndicators ==
    DetectCalled =>
        \A i \in 1..Len(allExtensions) :
            LET e == allExtensions[i]
            IN  ~isKnownProvider(e.id) =>
                    /\ EmittedAsUnknown(e) <=> SixIndicators(e) >= 2
                    /\ FourIndicators(e) >= 2 => EmittedAsUnknown(e)
                    /\ FourIndicators(e) = 0 => ~EmittedAsUnknown(e)

\* One of the four indicators is true (AI terms in description and display
\* name) and the extension is classified.
C4_Witness ==
    /\ DetectCalled
    /\ Len(allExtensions) = 1
    /\ FourIndicators(allExtensions[1]) = 1
    /\ SixIndicators(allExtensions[1]) = 2
    /\ "description" \in DOMAIN allExtensions[1].packageJSON
    /\ "displayName" \in DOMAIN allExtensions[1].packageJSON
    /\ Len(Detected) = 1

\* C5: every installed extension whose id is an allow-list entry is emitted
\* once, with the table's name, display name and capabilities whatever its
\* own metadata; an allow-list entry that is not installed is not emitted;
\* no descriptor with another id carries a table entry's capabilities.
C5_AllowListVerbatim ==
    DetectCalled =>
        /\ \A k \in 1..Len(knownProviders) :
              LET J == {j \in 1..Len(Detected) :
                           Detected[j].id = knownProviders[k].id}
                  installed == \E i \in 1..Len(allExtensions) :
                                   allExtensions[i].id = knownProviders[k].id
              IN  /\ Cardinality(J) = One(installed)
                  /\ \A j \in J :
                        /\ Detected[j].displayName
                             = knownProviders[k].displayName
                        /\ Detected[j].capabilities
                             = knownProviders[k].capabilities
                        /\ Detected[j].name = knownProviders[k].name
        /\ \A j \in 1..Len(Detected) :
              ~isKnownProvider(Detected[j].id) =>
                  \A n \in 1..Len(knownProviders) :
                      Detected[j].capabilities
                          # knownProviders[n].capabilities

\* An allow-list extension whose own metadata would pass the heuristic is
\* installed beside one whose id differs from an entry only in case.
C5_Witness ==
    /\ DetectCalled
    /\ \E i \in 1..Len(allExtensions) :
          /\ allExtensions[i].id = "github.copilot"
          /\ SixIndicators(allExtensions[i]) >= 2
    /\ \E j \in 1..Len(Detected) :
          /\ Detected[j].id = "GitHub.copilot"
          /\ Detected[j].capabilities = <<"unknown">>
    /\ \E j \in 1..Len(Detected) :
          /\ Detected[j].id = "github.copilot"
          /\ Detected[j].displayName = "GitHub Copilot"

\* C6: the list returned by detectProviders contains no two descriptors
\* with the same id, also when an id occurs more than once in the input.
C6_NoDuplicateIds ==
    DetectCalled =>
        \A i, j \in 1..Len(Detected) :
            i # j => Detected[i].id # Detected[j].id

\* UTF-16 code unit order of the characters of the model's names, once
\* lower-cased.
CodeUnitOrder == " ()-.0123456789:abcdefghijklmnopqrstuvwxyz"

CodeUnitTable ==
    [c \in {CharAt(CodeUnitOrder, i) : i \in 1..Len(CodeUnitOrder)} |->
        CHOOSE i \in 1..Len(CodeUnitOrder) : CharAt(CodeUnitOrder, i) = c]

\* lower(a) <= lower(b), comparing code units lexicographically
LowerLexLeq(a, b) ==
    LET la == toLowerCase(a)
        lb == toLowerCase(b)
        n == Min(Len(la), Len(lb))
        D == {i \in 1..n : CharAt(la, i) # CharAt(lb, i)}
    IN  IF D = {} THEN Len(la) <= Len(lb)
        ELSE LET d == CHOOSE i \in D : \A j \in D : i <= j
             IN  CodeUnitTable[CharAt(la, d)] < CodeUnitTable[CharAt(lb, d)]

\* Letters, digits and spaces only.
IsPlainName(a) ==
    \A i \in 1..Len(a) :
        LowerChar(CharAt(a, i)) \in
            {" "} \cup {CharAt(Lowercase, k) : k \in 1..Len(Lowercase)}
                  \cup {CharAt("0123456789", k) : k \in 1..10}

Declared(extension) ==
    IF "contributes" \in DOMAIN extension.packageJSON
    THEN extension.packageJSON.contributes ELSE EmptyObject

DeclaredCommands(extension) ==
    IF "commands" \in DOMAIN Declared(extension)
    THEN Declared(extension).commands ELSE <<>>

DeclaresCompletion(extension) ==
    \/ "completionProviders" \in DOMAIN Declared(extension)
    \/ "inlineCompletionProviders" \in DOMAIN Declared(extension)

Mentions(command, key, word) ==
    /\ key \in DOMAIN command
    /\ includes(toLowerCase(command[key]), word)

ChatTitled(extension) ==
    \E c \in 1..Len(DeclaredCommands(extension)) :
        Mentions(DeclaredCommands(extension)[c], "title", "chat")

ChatNamed(extension) ==
    \E c \in 1..Len(DeclaredCommands(extension)) :
        Mentions(DeclaredCommands(extension)[c], "command", "chat")

Has(list, x) == \E k \in 1..Len(list) : list[k] = x

\* The descriptors emitted for an extension outside the allow-list.
HeuristicDescriptors(extension) ==
    {k \in 1..Len(Detected) :
        /\ Detected[k].id = extension.id
        /\ Detected[k].displayName =
               StringOr(extension.packageJSON, "displayName", extension.id)
        /\ Detected[k].isActive = extension.isActive}

\* The capabilities of every heuristically detected provider are never
\* empty and hold 'unknown' only alone.
SentinelAlone ==
    \A k \in 1..Len(Detected) :
        ~isKnownProvider(Detected[k].id) =>
            /\ Len(Detected[k].capabilities) >= 1
            /\ Has(Detected[k].capabilities, "unknown") =>
                   Detected[k].capabilities = <<"unknown">>

\* C27 as stated: 'chat' exactly when a declared command is chat-titled.
C27_ChatIffTitled ==
    DetectCalled =>
        /\ SentinelAlone
        /\ \A i \in 1..Len(allExtensions) :
              LET e == allExtensions[i]
              IN  (~isKnownProvider(e.id) /\ Len(allExtensions) = 1
                      /\ Len(Detected) = 1) =>
                      LET capabilities == Detected[1].capabilities
                      IN  /\ Has(capabilities, "code-completion")
                              <=> DeclaresCompletion(e)
                          /\ Has(capabilities, "chat") <=> ChatTitled(e)
                          /\ Has(capabilities, "unknown")
                              <=> ~DeclaresCompletion(e) /\ ~ChatTitled(e)

\* C27 amended: 'code-completion' exactly when the extension declares
\* completionProviders or inlineCompletionProviders, 'chat' exactly when
\* the title or the command id of a declared command contains "chat"
\* whatever the case, 'unknown' exactly when neither applies; the list is
\* never empty and 'unknown' stands alone.
C27_ChatIffTitledOrNamed ==
    DetectCalled =>
        /\ SentinelAlone
        /\ \A i \in 1..Len(allExtensions) :
              LET e == allExtensions[i]
              IN  (~isKnownProvider(e.id) /\ isLikelyAIProvider(e)) =>
                      /\ HeuristicDescriptors(e) # {}
                      /\ \A k \in HeuristicDescriptors(e) :
                            LET capabilities == Detected[k].capabilities
                            IN  \/ /\ Has(capabilities, "code-completion")
                                       <=> DeclaresCompletion(e)
                                   /\ Has(capabilities, "chat")
                                       <=> ChatTitled(e) \/ ChatNamed(e)
                                   /\ Has(capabilities, "unknown")
                                       <=> /\ ~DeclaresCompletion(e)
                                           /\ ~ChatTitled(e)
                                           /\ ~ChatNamed(e)
                                \* another installed record shares id, display
                                \* name and state, and the descriptor is its
                                \/ \E j \in 1..Len(allExtensions) :
                                      /\ j # i
                                      /\ allExtensions[j].id = e.id
                                      /\ k \in HeuristicDescriptors(
                                                   allExtensions[j])
                                      /\ allExtensions[j] # e

\* A detected extension whose only command has "chat" in its id and not in
\* its title: its capabilities are 'chat' alone.
C27_Witness ==
    /\ DetectCalled
    /\ Len(allExtensions) = 1
    /\ Len(Detected) = 1
    /\ ChatNamed(allExtensions[1])
    /\ ~ChatTitled(allExtensions[1])
    /\ ~DeclaresCompletion(allExtensions[1])
    /\ Detected[1].capabilities = <<"chat">>

(***************************************************************************)
(* AIProviderDetector.waitForProviderActivation.  Every call is a record:  *)
(* what getExtension() found, the timer the call armed, the thenable that  *)
(* activate() handed to it and the promise the call returned.              *)
(***************************************************************************)
\* Calls made in one run.
MaxCalls == 2
defaultTimeout == 5000
Timeouts == {1, defaultTimeout}
ElapseSteps == {1, defaultTimeout}
ExtensionStates == {"absent", "inactive", "active"}
\* extension.activate() hands back a thenable or throws before it returns.
ActivateOutcomes == {"returns", "throws"}

\* Besides the delays of the timers, the clock advances once on its own.
Waiting == [NoWork EXCEPT !.ticks = 1]

\* A resolve that would overwrite a settled promise.
resolveOverwriting(call, value) == [call EXCEPT !.promise = value]

\* resolve of the returned promise: a settled promise stays as it is
resolve(call, value) ==
    IF call.promise = "pending" THEN [call EXCEPT !.promise = value] ELSE call

\* clearTimeout(timer): a timer that has fired or was cleared stays so
clearTimeout(call) ==
    IF call.timer = "armed" THEN [call EXCEPT !.timer = "cleared"] ELSE call

\* The call returns before the timer is created.
ReturnedAtOnce(value) ==
    [extension |-> extensionState, timeout |-> 0, due |-> 0,
     timer |-> "none", activation |-> "none", promise |-> value]

\* new Promise(executor): setTimeout, then extension.activate(); a throw
\* of activate() leaves the executor and rejects the promise, with the
\* timer armed.
Executor(timeout, outcome) ==
    [extension |-> extensionState, timeout |-> timeout, due |-> now + timeout,
     timer |-> "armed",
     activation |-> IF outcome = "throws" THEN "threw" ELSE "pending",
     promise |-> IF outcome = "throws" THEN "rejected" ELSE "pending"]

waitForProviderActivation(timeout, outcome) ==
    /\ Len(calls) < MaxCalls
    /\ calls' = Append(calls,
          CASE extensionState = "absent" -> ReturnedAtOnce("false")
            [] extensionState = "active" -> ReturnedAtOnce("true")
            [] OTHER -> Executor(timeout, outcome))
    /\ UNCHANGED <<streamVars, bufferVars, hostVars, runVars, detectVars,
                   lifeVars, peerVars,
                   extensionState>>

\* The delay of an armed timer elapses: the clock reaches its due time.
DelayElapses(i) ==
    /\ calls[i].timer = "armed"
    /\ now < calls[i].due
    /\ now' = calls[i].due
    /\ UNCHANGED <<streamVars, bufferVars, textDocuments, activeTextEditor,
                   trackCalls, contexts, runVars, detectVars,
                   lifeVars, peerVars, waitVars>>

\* A timer whose callback does nothing.
TimerFiresSilently(i) ==
    /\ calls[i].timer = "armed"
    /\ now >= calls[i].due
    /\ calls' = [calls EXCEPT ![i].timer = "fired"]
    /\ UNCHANGED <<streamVars, bufferVars, hostVars, runVars, detectVars,
                   lifeVars, peerVars,
                   extensionState>>

\* setTimeout(() => resolve(false), timeout): not before the delay is over
TimerFires(i) ==
    /\ calls[i].timer = "armed"
    /\ now >= calls[i].due
    /\ calls' = [calls EXCEPT ![i] = resolve([@ EXCEPT !.timer = "fired"],
                                             "false")]
    /\ UNCHANGED <<streamVars, bufferVars, hostVars, runVars, detectVars,
                   lifeVars, peerVars,
                   extensionState>>

\* The thenable fulfils and the then() callback runs.
ActivationFulfils(i) ==
    /\ calls[i].activation = "pending"
    /\ calls' = [calls EXCEPT ![i] =
          resolve(clearTimeout([@ EXCEPT !.activation = "fulfilled"]),
                  "true")]
    /\ extensionState' = "active"
    /\ UNCHANGED <<streamVars, bufferVars, hostVars, runVars, detectVars,
                   lifeVars, peerVars>>

\* The thenable rejects and the catch() callback runs.
ActivationRejects(i) ==
    /\ calls[i].activation = "pending"
    /\ calls' = [calls EXCEPT ![i] =
          resolve(clearTimeout([@ EXCEPT !.activation = "rejected"]),
                  "false")]
    /\ UNCHANGED <<streamVars, bufferVars, hostVars, runVars, detectVars,
                   lifeVars, peerVars,
                   extensionState>>

InitWait ==
    /\ StreamIdleUnder(Waiting)
    /\ PeersIdle
    /\ DetectIdle
    /\ extensionState \in ExtensionStates
    /\ calls = <<>>

NextWait ==
    \/ \E timeout \in Timeouts, outcome \in ActivateOutcomes :
          waitForProviderActivation(timeout, outcome)
    \/ \E i \in 1..Len(calls) : DelayElapses(i)
    \/ \E i \in 1..Len(calls) : TimerFires(i)
    \/ \E i \in 1..Len(calls) : ActivationFulfils(i)
    \/ \E i \in 1..Len(calls) : ActivationRejects(i)
    \/ \E step \in ElapseSteps : Tick(step)

SpecWait == InitWait /\ [][NextWait]_vars

\* The host's timers: the delay of a started timer elapses and the timer
\* fires.  Nothing is assumed about activate().
TimersFire ==
    \A i \in 1..MaxCalls :
        WF_vars(i <= Len(calls) /\ (DelayElapses(i) \/ TimerFires(i)))

SpecWaitFair == SpecWait /\ TimersFire

(***************************************************************************)
(* Properties of waitForProviderActivation, checked under SpecWait.        *)
(***************************************************************************)
\* C10: no call raises or rejects; a call resolves false when the
\* extension is not installed, true when it is already active, true when
\* activate() fulfils before the timer fires, and false when activate()
\* rejects or throws synchronously or the timer fires first.
C10_NeverRejects ==
    \A i \in 1..Len(calls) :
        LET call == calls[i]
        IN  /\ call.promise # "rejected"
            /\ call.extension = "absent" => call.promise = "false"
            /\ call.extension = "active" => call.promise = "true"
            /\ call.activation = "fulfilled" /\ call.timer = "cleared" =>
                   call.promise = "true"
            /\ call.activation \in {"rejected", "threw"} =>
                   call.promise = "false"
            /\ call.timer = "fired" => call.promise = "false"

Settled(call) == call.promise # "pending"

\* C11: the result of a call is decided once: a settled promise keeps its
\* value whatever happens later (an activation that fulfils after the
\* timeout leaves false in place); when the activation promise settles
\* while the timer is armed the timer is cleared, and a cleared timer never
\* fires.
C11_DecidedOnce ==
    [][\A i \in 1..Len(calls) :
          /\ Settled(calls[i]) => calls'[i].promise = calls[i].promise
          /\ /\ calls[i].activation = "pending"
             /\ calls'[i].activation \in {"fulfilled", "rejected"}
             /\ calls[i].timer = "armed"
             => /\ calls'[i].timer = "cleared"
                /\ calls'[i].promise =
                       IF calls'[i].activation = "fulfilled"
                       THEN "true" ELSE "false"
          /\ calls[i].timer = "cleared" => calls'[i].timer = "cleared"
          /\ calls[i].timer = "armed" /\ calls'[i].timer = "fired"
             => calls'[i].promise \in {"false", "rejected"}]_vars

\* The timer won the race and the activation fulfilled afterwards.
C11_Witness ==
    \E i \in 1..Len(calls) :
        /\ calls[i].timer = "fired"
        /\ calls[i].activation = "fulfilled"
        /\ calls[i].promise = "false"

\* C12: with timers that fire, every call settles, and a call whose
\* activate() returned resolves to a boolean; while activate() has not
\* settled the call is false only after its timer fired, at or after the
\* due time.
C12_EventuallyResolves ==
    /\ \A i \in 1..MaxCalls :
          (i <= Len(calls)) ~>
              (/\ i <= Len(calls)
               /\ \/ calls[i].promise \in {"true", "false"}
                  \/ calls[i].activation = "threw" /\ Settled(calls[i]))
    /\ [](\A i \in 1..Len(calls) :
             calls[i].activation = "pending" /\ Settled(calls[i]) =>
                 /\ calls[i].promise = "false"
                 /\ calls[i].timer = "fired"
                 /\ now >= calls[i].due)

\* activate() never settled and the call resolved false when the timer
\* fired.
C12_Witness ==
    \E i \in 1..Len(calls) :
        /\ calls[i].activation = "pending"
        /\ calls[i].timer = "fired"
        /\ calls[i].promise = "false"
        /\ now >= calls[i].due

(***************************************************************************)
(* Further properties of the live context stream, checked under Spec.      *)
(***************************************************************************)
\* C16: a call of startContextTracking while already tracking subscribes
\* no listener, creates no timer and leaves the buffer alone; while
\* tracking there are exactly the five subscriptions and the one timer of
\* the first start, and after stop() none is left.
C16_StartIdempotent ==
    /\ [][(isActive /\ startCalls' = startCalls + 1)
             => UNCHANGED <<streamVars, bufferVars, liveTimers, liveListeners,
                            trackCalls>>
       ]_vars
    /\ [](isActive =>
             /\ disposables = Listeners
             /\ contextUpdateTimer # NoTimer
             /\ liveTimers = {contextUpdateTimer.handle})
    /\ [](~isActive =>
             /\ disposables = <<>>
             /\ contextUpdateTimer = NoTimer
             /\ liveTimers = {})

\* start; start: the second call found the stream tracking.
C16_Witness ==
    /\ startCalls = 2
    /\ isActive
    /\ contextUpdateTimer.handle = 1
    /\ liveTimers = {1}
    /\ Len(disposables) = Len(Listeners)

(***************************************************************************)
(* AIEnhancementLayer (ai-enhancement-layer.ts): enhanceAIRequest and      *)
(* createEnhancedPrompt.  The prompts are built as the template literals   *)
(* build them, character by character.                                     *)
(***************************************************************************)
\* Items the server returns in each list of an enhanced context.
MaxItems == 6
\* Calls of enhanceAIRequest in one run.
MaxRequests == 2

\* Array.prototype.join(separator)
RECURSIVE joinWith(_, _)
joinWith(words, separator) ==
    IF words = <<>> THEN ""
    ELSE IF Len(words) = 1 THEN words[1]
    ELSE words[1] \o separator \o joinWith(Tail(words), separator)

\* Array.prototype.slice(0, n)
SliceFirst(xs, n) == SubSeq(xs, 1, Min(n, Len(xs)))

Bulleted(items) == [i \in 1..Len(items) |-> "- " \o items[i]]

\* config.get<string>(key, defaultValue)
configGet(config, key, defaultValue) ==
    IF key \in DOMAIN config THEN config[key] ELSE defaultValue

minimalPrompt(originalPrompt, vscodeContext) ==
    originalPrompt \o "\n\n[Project: " \o vscodeContext.workspaceRoot \o "]"

\* A standard template that lists one pattern more.
standardPromptFourPatterns(originalPrompt, knowledgeHubContext, vscodeContext) ==
    "\n# Context from KnowledgeHub AI Intelligence\n\n"
    \o "## Current File: " \o vscodeContext.activeFile \o "\n"
    \o "## Git Branch: " \o vscodeContext.gitBranch \o "\n\n"
    \o "## Recent Project Patterns:\n"
    \o joinWith(SliceFirst(knowledgeHubContext.relevantPatterns, 4), "\n")
    \o "\n\n## Original Request:\n" \o originalPrompt \o "\n"

standardPrompt(originalPrompt, knowledgeHubContext, vscodeContext) ==
    "\n# Context from KnowledgeHub AI Intelligence\n\n"
    \o "## Current File: " \o vscodeContext.activeFile \o "\n"
    \o "## Git Branch: " \o vscodeContext.gitBranch \o "\n\n"
    \o "## Recent Project Patterns:\n"
    \o joinWith(SliceFirst(knowledgeHubContext.relevantPatterns, 3), "\n")
    \o "\n\n## Original Request:\n" \o originalPrompt \o "\n"

maximumPrompt(originalPrompt, knowledgeHubContext, vscodeContext) ==
    "\n# Enhanced Context from KnowledgeHub AI Intelligence\n\n"
    \o "## Project Context:\n" \o knowledgeHubContext.projectSummary
    \o "\n\n## Relevant Past Decisions:\n"
    \o joinWith(Bulleted(SliceFirst(knowledgeHubContext.relevantDecisions,
                                    3)), "\n")
    \o "\n\n## Known Patterns for This Task:\n"
    \o joinWith(Bulleted(SliceFirst(knowledgeHubContext.relevantPatterns,
                                    5)), "\n")
    \o "\n\n## Current Development Context:\n"
    \o "- **File**: " \o vscodeContext.activeFile \o "\n"
    \o "- **Git Branch**: " \o vscodeContext.gitBranch \o "\n"
    \o "- **Workspace**: " \o vscodeContext.workspaceRoot \o "\n"
    \o "- **Selected Text**: "
    \o (IF vscodeContext.selectedText # ""
        THEN "\"" \o vscodeContext.selectedText \o "\"" ELSE "None")
    \o "\n\n## AI Suggestions:\n"
    \o joinWith(Bulleted(SliceFirst(knowledgeHubContext.suggestions, 3)),
                "\n")
    \o "\n\n## Original Request:\n" \o originalPrompt
    \o "\n\n---\nPlease provide a response that considers the full project "
    \o "context, learned patterns, and past decisions. Focus on consistency "
    \o "with existing codebase patterns and architectural decisions.\n"

\* A createEnhancedPrompt whose fallback is the standard template.
createEnhancedPromptStandardFallback(originalPrompt, knowledgeHubContext, vscodeContext, config) ==
    LET enhancementLevel == configGet(config, "ai.enhancementLevel", "maximum")
    IN  IF enhancementLevel = "minimal"
        THEN minimalPrompt(originalPrompt, vscodeContext)
        ELSE IF enhancementLevel = "maximum"
        THEN maximumPrompt(originalPrompt, knowledgeHubContext, vscodeContext)
        ELSE standardPrompt(originalPrompt, knowledgeHubContext,
                            vscodeContext)

createEnhancedPrompt(originalPrompt, knowledgeHubContext, vscodeContext, config) ==
    LET enhancementLevel == configGet(config, "ai.enhancementLevel", "maximum")
    IN  IF enhancementLevel = "minimal"
        THEN minimalPrompt(originalPrompt, vscodeContext)
        ELSE IF enhancementLevel = "standard"
        THEN standardPrompt(originalPrompt, knowledgeHubContext,
                            vscodeContext)
        ELSE maximumPrompt(originalPrompt, knowledgeHubContext, vscodeContext)

\* The template reads a list the response does not have: TypeError.
createEnhancedPromptThrows(knowledgeHubContext, config) ==
    LET enhancementLevel == configGet(config, "ai.enhancementLevel", "maximum")
        needed == IF enhancementLevel = "minimal" THEN {}
                  ELSE IF enhancementLevel = "standard"
                  THEN {"relevantPatterns"}
                  ELSE {"relevantDecisions", "relevantPatterns",
                        "suggestions"}
    IN  ~(needed \subseteq DOMAIN knowledgeHubContext)

\* gatherVSCodeContext(): no editor is open in these runs.
gatherVSCodeContext ==
    [activeFile |-> IF activeTextEditor = NoEditor THEN ""
                    ELSE activeTextEditor,
     workspaceRoot |-> "/w/shop", gitBranch |-> "main",
     openFiles |-> textDocuments, selectedText |-> ""]

\* enhanceAIRequest without its try/catch.
enhanceAIRequestUncaught(originalRequest) ==
    IF ~layerActive
    THEN [raised |-> FALSE, value |-> originalRequest]
    ELSE IF \/ ~remote.ok
            \/ createEnhancedPromptThrows(remote.data, settings)
    THEN [raised |-> TRUE, value |-> originalRequest]
    ELSE [raised |-> FALSE,
          value |-> [prompt |-> originalRequest.prompt,
                     enhancedPrompt |->
                         createEnhancedPrompt(originalRequest.prompt,
                             remote.data, gatherVSCodeContext, settings),
                     knowledgeHubContext |-> remote.data,
                     vscodeContext |-> gatherVSCodeContext]]

\* enhanceAIRequest(originalRequest): what the returned promise settles to
enhanceAIRequest(originalRequest) ==
    IF ~layerActive
    THEN [raised |-> FALSE, value |-> originalRequest]
    ELSE IF \/ ~remote.ok
            \/ createEnhancedPromptThrows(remote.data, settings)
    THEN [raised |-> FALSE, value |-> originalRequest]
    ELSE [raised |-> FALSE,
          value |-> [prompt |-> originalRequest.prompt,
                     enhancedPrompt |->
                         createEnhancedPrompt(originalRequest.prompt,
                             remote.data, gatherVSCodeContext, settings),
                     knowledgeHubContext |-> remote.data,
                     vscodeContext |-> gatherVSCodeContext]]

Item(kind, i) == kind \o " #" \o ToString(i) \o "."
Items(kind, n) == [i \in 1..n |-> Item(kind, i)]

EnhancedContexts ==
    {[projectSummary |-> "Shop on Node and React",
      relevantDecisions |-> Items("decision", n),
      relevantPatterns |-> Items("pattern", n),
      currentBranch |-> "main",
      suggestions |-> Items("suggestion", n)] : n \in 1..MaxItems}

\* The server fails, answers with an empty object or with a context.
Remotes ==
    {[ok |-> FALSE, data |-> EmptyObject],
     [ok |-> TRUE, data |-> EmptyObject]}
        \cup {[ok |-> TRUE, data |-> c] : c \in EnhancedContexts}

EnhancementLevels == {"minimal", "standard", "maximum", "verbose", ""}
Settings ==
    {EmptyObject}
        \cup {[key \in {"ai.enhancementLevel"} |-> level] :
                 level \in EnhancementLevels}

Prompts == {"Create a login function", "fix"}

\* AIEnhancementLayer.start(), as far as isActive goes
layerStart ==
    /\ ~layerActive
    /\ layerActive' = TRUE
    /\ UNCHANGED <<streamVars, bufferVars, hostVars, runVars, detectVars,
                   waitVars, lifeVars, extensionVars, awaitVars, bridgeVars, trackVars, shapeVars, clientVars,
                   settings, remote, enhanced>>

\* AIEnhancementLayer.stop()
layerStop ==
    /\ layerActive
    /\ layerActive' = FALSE
    /\ UNCHANGED <<streamVars, bufferVars, hostVars, runVars, detectVars,
                   waitVars, lifeVars, extensionVars, awaitVars, bridgeVars, trackVars, shapeVars, clientVars,
                   settings, remote, enhanced>>

EnhanceAIRequest(prompt) ==
    /\ Len(enhanced) < MaxRequests
    /\ LET originalRequest == [prompt |-> prompt]
           outcome == enhanceAIRequest(originalRequest)
       IN  enhanced' = Append(enhanced,
               [request |-> originalRequest, active |-> layerActive,
                raised |-> outcome.raised, result |-> outcome.value])
    /\ UNCHANGED <<streamVars, bufferVars, hostVars, runVars, detectVars,
                   waitVars, lifeVars, extensionVars, awaitVars, bridgeVars, trackVars, shapeVars, clientVars,
                   layerActive, settings, remote>>

InitEnhance ==
    /\ StreamIdle
    /\ DetectIdle
    /\ WaitIdle
    /\ TrackIdle
    /\ ShapesIdle
    /\ ClientIdle
    /\ BridgeIdle
    /\ ExtensionIdle
    /\ AwaitIdle
    /\ layerActive = FALSE
    /\ settings \in Settings
    /\ remote \in Remotes
    /\ enhanced = <<>>

NextEnhance ==
    \/ layerStart
    \/ layerStop
    \/ \E prompt \in Prompts : EnhanceAIRequest(prompt)

SpecEnhance == InitEnhance /\ [][NextEnhance]_vars

(***************************************************************************)
(* Properties of the enhancement layer, checked under SpecEnhance.         *)
(***************************************************************************)
Level(l) == [key \in {"ai.enhancementLevel"} |-> l]
ConfiguredLevel == configGet(settings, "ai.enhancementLevel", "maximum")
HasEnhancedPrompt(e) == "enhancedPrompt" \in DOMAIN e.result
StartsWith(text, prefix) ==
    Len(prefix) <= Len(text) /\ SubSeq(text, 1, Len(prefix)) = prefix

\* C13: 'minimal' and 'standard' select their own templates; with any
\* other configured value, an absent setting included, the enhanced prompt
\* is the one 'maximum' produces.
C13_ThreeLevels ==
    \A k \in 1..Len(enhanced) :
        LET e == enhanced[k]
            out == e.result.enhancedPrompt
            under(l) ==
                createEnhancedPrompt(e.request.prompt,
                    e.result.knowledgeHubContext, e.result.vscodeContext,
                    Level(l))
        IN  HasEnhancedPrompt(e) =>
                CASE ConfiguredLevel = "minimal" ->
                       /\ StartsWith(out, e.request.prompt)
                       /\ ~includes(out, "KnowledgeHub AI Intelligence")
                  [] ConfiguredLevel = "standard" ->
                       /\ includes(out,
                              "# Context from KnowledgeHub AI Intelligence")
                       /\ ~includes(out, "# Enhanced Context")
                  [] OTHER ->
                       /\ out = under("maximum")
                       /\ includes(out, "# Enhanced Context from "
                                        \o "KnowledgeHub AI Intelligence")
                       /\ out # under("minimal")
                       /\ out # under("standard")

\* Prompts were enhanced under an unrecognized level and, in another run,
\* with no level configured.
C13_Witness ==
    /\ enhanced # <<>>
    /\ HasEnhancedPrompt(enhanced[1])
    /\ ConfiguredLevel = "verbose"
    /\ Len(enhanced[1].result.knowledgeHubContext.relevantPatterns) = 2

\* C14: with non-empty lists, the minimal prompt holds the original prompt
\* and the [Project: ...] marker and no list item; the standard prompt
\* holds the original prompt and the first 3 patterns only; the maximum
\* prompt holds the original prompt, the project summary, the first 3
\* decisions, the first 5 patterns and the first 3 suggestions only.
C14_ItemsWithinLimits ==
    \A k \in 1..Len(enhanced) :
        LET e == enhanced[k]
            out == e.result.enhancedPrompt
            context == e.result.knowledgeHubContext
            Within(list, limit) ==
                \A i \in 1..Len(list) : includes(out, list[i]) <=> i <= limit
        IN  HasEnhancedPrompt(e) /\ context # EmptyObject =>
                /\ includes(out, e.request.prompt)
                /\ CASE ConfiguredLevel = "minimal" ->
                          /\ includes(out, "[Project: "
                                 \o e.result.vscodeContext.workspaceRoot
                                 \o "]")
                          /\ Within(context.relevantDecisions, 0)
                          /\ Within(context.relevantPatterns, 0)
                          /\ Within(context.suggestions, 0)
                     [] ConfiguredLevel = "standard" ->
                          /\ Within(context.relevantDecisions, 0)
                          /\ Within(context.relevantPatterns, 3)
                          /\ Within(context.suggestions, 0)
                     [] OTHER ->
                          /\ includes(out, context.projectSummary)
                          /\ Within(context.relevantDecisions, 3)
                          /\ Within(context.relevantPatterns, 5)
                          /\ Within(context.suggestions, 3)

\* A maximum prompt was built from lists longer than every limit.
C14_Witness ==
    /\ enhanced # <<>>
    /\ HasEnhancedPrompt(enhanced[1])
    /\ ConfiguredLevel = "maximum"
    /\ Len(enhanced[1].result.knowledgeHubContext.relevantPatterns) >= 6
    /\ includes(enhanced[1].result.enhancedPrompt, "- pattern #5.")
    /\ ~includes(enhanced[1].result.enhancedPrompt, "pattern #6.")

\* C19: enhanceAIRequest never throws and the result's prompt is the
\* original prompt; when the layer is not active or the remote call fails
\* the result is the original request; a result carries enhancedPrompt
\* only when the layer was active and the remote call succeeded, and then
\* it carries knowledgeHubContext and vscodeContext too.
C19_NeverThrowsKeepsPrompt ==
    \A k \in 1..Len(enhanced) :
        LET e == enhanced[k]
        IN  /\ ~e.raised
            /\ e.result.prompt = e.request.prompt
            /\ ~e.active \/ ~remote.ok => e.result = e.request
            /\ e.result # e.request =>
                   /\ e.active /\ remote.ok
                   /\ DOMAIN e.result =
                          {"prompt", "enhancedPrompt", "knowledgeHubContext",
                           "vscodeContext"}
                   /\ e.result.knowledgeHubContext = remote.data

\* One request went through while the remote call failed and the layer
\* was active, another while the layer was stopped.
C19_Witness ==
    /\ Len(enhanced) = 2
    /\ ~remote.ok
    /\ enhanced[1].active
    /\ ~enhanced[2].active
    /\ enhanced[1].result = enhanced[1].request
    /\ enhanced[1].request.prompt # enhanced[2].request.prompt

(***************************************************************************)
(* detectProviders on metadata of any shape.  A value of packageJSON is a  *)
(* record that carries its JavaScript type; an operation the type does not *)
(* have ends the call with a TypeError.                                    *)
(***************************************************************************)
Undefined == [t |-> "undefined"]
Null == [t |-> "null"]
Str(s) == [t |-> "string", s |-> s]
Num(n) == [t |-> "number", n |-> n]
Arr(items) == [t |-> "array", items |-> items]
Obj(fields) == [t |-> "object", fields |-> fields]
TypeError == "TypeError"
Bool(b) == IF b THEN "true" ELSE "false"

Truthy(v) == v.t \notin {"undefined", "null"} /\ v # Str("") /\ v # Num(0)

\* v || fallback
OrElse(v, fallback) == IF Truthy(v) THEN v ELSE fallback

\* v.key, for a v that is neither undefined nor null
Property(v, key) ==
    IF v.t = "object" /\ key \in DOMAIN v.fields THEN v.fields[key]
    ELSE Undefined

\* v?.key
OptionalProperty(v, key) ==
    IF v.t \in {"undefined", "null"} THEN Undefined ELSE Property(v, key)

\* String(element) as Array.prototype.join does it
JoinedText(v) ==
    IF v.t = "string" THEN v.s
    ELSE IF v.t \in {"undefined", "null"} THEN ""
    ELSE IF v.t = "number" THEN ToString(v.n)
    ELSE "[object Object]"

\* containsAIKeywords(text): text.toLowerCase() exists on strings only
containsAIKeywordsJS(text) ==
    IF text.t = "string" THEN Bool(containsAIKeywords(text.s)) ELSE TypeError

\* containsAIKeywords((packageJSON.keywords || []).join(' '))
keywordsIndicatorJS(packageJSON) ==
    LET keywords == OrElse(Property(packageJSON, "keywords"), Arr(<<>>))
    IN  IF keywords.t # "array" THEN TypeError
        ELSE Bool(containsAIKeywords(
                 join([i \in 1..Len(keywords.items) |->
                          JoinedText(keywords.items[i])])))

\* categories.some(...): the elements in order, up to the first match
RECURSIVE someAICategory(_)
someAICategory(items) ==
    IF items = <<>> THEN "false"
    ELSE IF Head(items).t # "string" THEN TypeError
    ELSE IF hasAICategory(<<Head(items).s>>) THEN "true"
    ELSE someAICategory(Tail(items))

hasAICategoryJS(categories) ==
    IF categories.t # "array" THEN TypeError
    ELSE someAICategory(categories.items)

\* One element of commands under hasAICommands: the first keyword reads
\* command.command and, unless that matches, command.title.
aiCommandJS(command) ==
    IF command.t \in {"undefined", "null"} THEN TypeError
    ELSE LET id == OrElse(Property(command, "command"), Str(""))
             title == OrElse(Property(command, "title"), Str(""))
         IN  IF id.t # "string" THEN TypeError
             ELSE IF includes(toLowerCase(id.s), aiCommandKeywords[1])
             THEN "true"
             ELSE IF title.t # "string" THEN TypeError
             ELSE Bool(hasAICommands(
                      <<[command |-> id.s, title |-> title.s]>>))

RECURSIVE someAICommand(_)
someAICommand(items) ==
    IF items = <<>> THEN "false"
    ELSE LET first == aiCommandJS(Head(items))
         IN  IF first = "false" THEN someAICommand(Tail(items)) ELSE first

hasAICommandsJS(commands) ==
    IF commands.t # "array" THEN TypeError
    ELSE someAICommand(commands.items)

hasCompletionProvidersJS(contributes) ==
    Bool(\/ Truthy(Property(contributes, "completionProviders"))
         \/ Truthy(Property(contributes, "inlineCompletionProviders"))
         \/ Truthy(Property(contributes, "languages")))

indicatorsJS(packageJSON) ==
    <<containsAIKeywordsJS(
          OrElse(Property(packageJSON, "description"), Str(""))),
      containsAIKeywordsJS(
          OrElse(Property(packageJSON, "displayName"), Str(""))),
      keywordsIndicatorJS(packageJSON),
      hasAICategoryJS(
          OrElse(Property(packageJSON, "categories"), Arr(<<>>))),
      hasAICommandsJS(
          OrElse(OptionalProperty(Property(packageJSON, "contributes"),
                                  "commands"), Arr(<<>>))),
      hasCompletionProvidersJS(
          OrElse(Property(packageJSON, "contributes"), Obj(EmptyObject)))>>

isLikelyAIProviderJS(packageJSON) ==
    LET flags == indicatorsJS(packageJSON)
    IN  IF \E i \in 1..Len(flags) : flags[i] = TypeError THEN TypeError
        ELSE Bool(Cardinality({i \in 1..Len(flags) : flags[i] = "true"})
                      >= 2)

\* One element of commands under inferCapabilities: title first, then id.
chatCommandJS(cmd) ==
    IF cmd.t \in {"undefined", "null"} THEN TypeError
    ELSE LET title == OrElse(Property(cmd, "title"), Str(""))
             id == OrElse(Property(cmd, "command"), Str(""))
         IN  IF title.t # "string" THEN TypeError
             ELSE IF includes(toLowerCase(title.s), "chat") THEN "true"
             ELSE IF id.t # "string" THEN TypeError
             ELSE Bool(includes(toLowerCase(id.s), "chat"))

RECURSIVE someChatCommand(_)
someChatCommand(items) ==
    IF items = <<>> THEN "false"
    ELSE LET first == chatCommandJS(Head(items))
         IN  IF first = "false" THEN someChatCommand(Tail(items)) ELSE first

\* inferCapabilities(extension): TypeError, or it returns
inferCapabilitiesJS(packageJSON) ==
    LET contributes ==
            OrElse(Property(packageJSON, "contributes"), Obj(EmptyObject))
        commands == Property(contributes, "commands")
    IN  IF ~Truthy(commands) THEN "returns"
        ELSE IF commands.t # "array" THEN TypeError
        ELSE IF someChatCommand(commands.items) = TypeError THEN TypeError
        ELSE "returns"

\* detectProviders() with one installed extension outside the allow-list
detectProvidersJS(packageJSON) ==
    LET likely == isLikelyAIProviderJS(packageJSON)
    IN  IF likely = TypeError THEN "raised"
        ELSE IF likely = "false" THEN "returned none"
        ELSE IF inferCapabilitiesJS(packageJSON) = TypeError THEN "raised"
        ELSE "returned one"

\* Each optional field absent, empty, well-formed or of another shape.
Descriptions == {Undefined, Str(""), Str("AI helper"), Num(42), Null}
KeywordLists ==
    {Undefined, Arr(<<>>), Arr(<<Str("gpt"), Null>>), Str("gpt")}
CategoryLists ==
    {Undefined, Arr(<<>>), Arr(<<Str("AI"), Null>>),
     Arr(<<Null, Str("AI")>>), Str("AI")}
CommandLists ==
    {Undefined, Arr(<<>>),
     Arr(<<Obj([command |-> Str("x.ai"), title |-> Str("Run")]), Null>>),
     Arr(<<Obj([command |-> Str("x.chat")]), Null>>),
     Arr(<<Obj([command |-> Num(7), title |-> Str("Chat")])>>),
     Arr(<<Obj([command |-> Str("x.complete"), title |-> Num(7)])>>),
     Arr(<<Str("chat")>>),
     Obj(EmptyObject)}
Contributions ==
    {Undefined, Null, Str("x"), Obj(EmptyObject),
     Obj([languages |-> Arr(<<>>)])}
        \cup {Obj([commands |-> c]) : c \in CommandLists \ {Undefined}}

Field(key, v) == IF v = Undefined THEN EmptyObject ELSE [k \in {key} |-> v]

ShapedPackages ==
    {Obj(Field("description", d) @@ Field("keywords", k)
         @@ Field("categories", c) @@ Field("contributes", x)) :
        d \in Descriptions, k \in KeywordLists, c \in CategoryLists,
        x \in Contributions}

InitShapes ==
    /\ StreamIdle
    /\ DetectIdle
    /\ WaitIdle
    /\ TrackIdle
    /\ EnhanceIdle
    /\ ClientIdle
    /\ BridgeIdle
    /\ ExtensionIdle
    /\ AwaitIdle
    /\ metadata \in ShapedPackages
    /\ detection = "none"

DetectShaped ==
    /\ detection = "none"
    /\ detection' = detectProvidersJS(metadata)
    /\ UNCHANGED <<streamVars, bufferVars, hostVars, runVars, detectVars,
                   waitVars, lifeVars, extensionVars, awaitVars, bridgeVars, trackVars, enhanceVars, clientVars,
                   metadata>>

NextShapes == DetectShaped

SpecShapes == InitShapes /\ [][NextShapes]_vars

\* C15: detectProviders never raises, whatever the shape of the optional
\* fields of the metadata.
C15_NeverRaises == detection # "raised"

(***************************************************************************)
(* KnowledgeHubClient: every operation sends one HTTP request and settles  *)
(* when the request does.  An operation is given the response and yields   *)
(* how its promise settles and the line it appends to the output channel.  *)
(***************************************************************************)
\* Calls on the client in one run.
MaxClientCalls == 2

HttpOk == [ok |-> TRUE, error |-> ""]
HttpFailures ==
    {[ok |-> FALSE, error |-> "Error: Network Error"],
     [ok |-> FALSE, error |-> "Error: timeout of 30000ms exceeded"],
     [ok |-> FALSE, error |-> "Error: Request failed with status code 500"]}
Responses == {HttpOk} \cup HttpFailures

Returns == [promise |-> "fulfilled", message |-> "", line |-> ""]
\* throw new Error(message) inside the async function
Throws(message) == [promise |-> "rejected", message |-> message, line |-> ""]
\* this.outputChannel.appendLine(line) in the catch block
Logs(line) == [promise |-> "fulfilled", message |-> "", line |-> line]

initializeAISession(response) ==
    IF response.ok THEN Returns
    ELSE Throws("Failed to initialize AI session: " \o response.error)

getEnhancedContext(response) ==
    IF response.ok THEN Returns
    ELSE Throws("Failed to get enhanced context: " \o response.error)

analyzeProject(response) ==
    IF response.ok THEN Returns
    ELSE Throws("Failed to analyze project: " \o response.error)

getRecentMemories(response) ==
    IF response.ok THEN Returns
    ELSE Throws("Failed to get recent memories: " \o response.error)

\* A trackCodeChange that throws as the read operations do.
trackCodeChangeRethrowing(response) ==
    IF response.ok THEN Returns
    ELSE Throws("Failed to track code change: " \o response.error)

trackCodeChange(response) ==
    IF response.ok THEN Returns
    ELSE Logs("Failed to track code change: " \o response.error)

recordDecision(response) ==
    IF response.ok THEN Returns
    ELSE Logs("Failed to record decision: " \o response.error)

learnFromError(response) ==
    IF response.ok THEN Returns
    ELSE Logs("Failed to record error learning: " \o response.error)

ReadOperations ==
    {"initializeAISession", "getEnhancedContext", "analyzeProject",
     "getRecentMemories"}
TelemetryOperations == {"trackCodeChange", "recordDecision", "learnFromError"}
Operations == ReadOperations \cup TelemetryOperations

Settlement(operation, response) ==
    CASE operation = "initializeAISession" -> initializeAISession(response)
      [] operation = "getEnhancedContext" -> getEnhancedContext(response)
      [] operation = "analyzeProject" -> analyzeProject(response)
      [] operation = "getRecentMemories" -> getRecentMemories(response)
      [] operation = "trackCodeChange" -> trackCodeChange(response)
      [] operation = "recordDecision" -> recordDecision(response)
      [] operation = "learnFromError" -> learnFromError(response)

AppendLine(channel, line) ==
    IF line = "" THEN channel ELSE Append(channel, line)

\* A caller invokes an operation: the request is on its way.
ClientCall(operation) ==
    /\ Len(requests) < MaxClientCalls
    /\ requests' = Append(requests,
           [operation |-> operation, http |-> "pending",
            promise |-> "pending", message |-> ""])
    /\ UNCHANGED <<streamVars, bufferVars, hostVars, runVars, detectVars,
                   waitVars, lifeVars, extensionVars, awaitVars, bridgeVars, trackVars, enhanceVars, shapeVars,
                   outputChannel>>

\* The HTTP request of call i settles and the operation with it.
HttpSettles(i, response) ==
    /\ requests[i].http = "pending"
    /\ LET settled == Settlement(requests[i].operation, response)
       IN  /\ requests' = [requests EXCEPT ![i] =
                  [operation |-> @.operation,
                   http |-> IF response.ok THEN "ok" ELSE response.error,
                   promise |-> settled.promise,
                   message |-> settled.message]]
           /\ outputChannel' = AppendLine(outputChannel, settled.line)
    /\ UNCHANGED <<streamVars, bufferVars, hostVars, runVars, detectVars,
                   waitVars, lifeVars, extensionVars, awaitVars, bridgeVars, trackVars, enhanceVars, shapeVars>>

InitClient ==
    /\ StreamIdle
    /\ DetectIdle
    /\ WaitIdle
    /\ PeersIdle

NextClient ==
    \/ \E operation \in Operations : ClientCall(operation)
    \/ \E i \in 1..Len(requests), response \in Responses :
          HttpSettles(i, response)

SpecClient == InitClient /\ [][NextClient]_vars

\* C18: when the HTTP request fails, trackCodeChange, recordDecision and
\* learnFromError fulfil (the failure is a line in the output channel),
\* while initializeAISession, getEnhancedContext, analyzeProject and
\* getRecentMemories reject with an error whose message names the operation
\* and carries the cause.
C18_FailuresByOperation ==
    \A i \in 1..Len(requests) :
        LET r == requests[i]
        IN  /\ r.http = "ok" => r.promise = "fulfilled"
            /\ r.http \notin {"pending", "ok"} =>
                   IF r.operation \in TelemetryOperations
                   THEN /\ r.promise = "fulfilled"
                        /\ r.message = ""
                        /\ \E k \in 1..Len(outputChannel) :
                              /\ StartsWith(outputChannel[k], "Failed to ")
                              /\ includes(outputChannel[k], r.http)
                   ELSE /\ r.promise = "rejected"
                        /\ StartsWith(r.message, "Failed to ")
                        /\ includes(r.message, r.http)
            /\ r.http = "pending" <=> r.promise = "pending"

\* A telemetry call and a read call both met a failing request.
C18_Witness ==
    /\ Len(requests) = 2
    /\ requests[1].operation = "trackCodeChange"
    /\ requests[1].http = "Error: Network Error"
    /\ requests[1].promise = "fulfilled"
    /\ requests[2].operation = "getEnhancedContext"
    /\ requests[2].promise = "rejected"

(***************************************************************************)
(* The trackCodeChange requests of the live context stream: the handler    *)
(* issues the request and returns; the request settles later, in any       *)
(* order.                                                                  *)
(***************************************************************************)
Tracked == [NoWork EXCEPT !.docs = Docs, !.changes = MaxChanges,
                          !.dropped = 1]

Unsettled == (1..Len(trackCalls)) \ DOMAIN trackOutcomes

\* What is left of request i once it settled: the promise of
\* trackCodeChange and whether the handler's .catch callback ran.
TrackOutcome(response) ==
    LET settled == trackCodeChange(response)
    IN  [http |-> IF response.ok THEN "ok" ELSE response.error,
         promise |-> settled.promise,
         caught |-> settled.promise = "rejected"]

\* A settling that issues the request again when it failed.
TrackCodeChangeSettlesRetrying(i, response) ==
    /\ i \in Unsettled
    /\ trackOutcomes' = trackOutcomes @@ (i :> TrackOutcome(response))
    /\ outputChannel' =
           AppendLine(outputChannel, trackCodeChange(response).line)
    /\ trackCalls' = IF response.ok THEN trackCalls
                     ELSE Append(trackCalls, trackCalls[i])
    /\ UNCHANGED <<streamVars, bufferVars, now, textDocuments,
                   activeTextEditor, contexts, runVars, detectVars, waitVars,
                   lifeVars, extensionVars, awaitVars, bridgeVars, enhanceVars, shapeVars, requests>>

\* Request i settles: trackCodeChange logs a failure; the buffer, the
\* stream and the list of requests are as they were.
TrackCodeChangeSettles(i, response) ==
    /\ i \in Unsettled
    /\ trackOutcomes' = trackOutcomes @@ (i :> TrackOutcome(response))
    /\ outputChannel' =
           AppendLine(outputChannel, trackCodeChange(response).line)
    /\ UNCHANGED <<streamVars, bufferVars, hostVars, runVars, detectVars,
                   waitVars, lifeVars, extensionVars, awaitVars, bridgeVars, enhanceVars, shapeVars, requests>>

InitTrack ==
    /\ StreamIdleUnder(Tracked)
    /\ DetectIdle
    /\ WaitIdle
    /\ PeersIdle

NextTrack ==
    \/ startContextTracking
    \/ stop
    \/ \E document \in textDocuments : onDocumentChange(document)
    \/ \E i \in 1..Len(trackCalls), response \in Responses :
          TrackCodeChangeSettles(i, response)

SpecTrack == InitTrack /\ [][NextTrack]_vars

\* C17: every ingested change has exactly one trackCodeChange request, in
\* order, whether earlier requests are pending, fulfilled or failed; no
\* request ends in a rejection that reaches the handler; a request that
\* settles, failed or not, changes nothing in the buffer, the stream or the
\* list of requests.
C17_TrackFailuresContained ==
    /\ [](/\ Len(trackCalls) = Len(ingested.changes)
          /\ \A i \in 1..Len(trackCalls) :
                /\ trackCalls[i].file = ingested.changes[i].file
                /\ trackCalls[i].changes = ingested.changes[i].changes
          /\ changes = ingested.changes
          /\ \A i \in DOMAIN trackOutcomes :
                /\ trackOutcomes[i].promise = "fulfilled"
                /\ ~trackOutcomes[i].caught)
    /\ [][trackOutcomes' # trackOutcomes
             => UNCHANGED <<streamVars, bufferVars, trackCalls, ingested>>
       ]_vars

\* The request of change 1 failed, and change 2 was ingested and its
\* request issued all the same.
C17_Witness ==
    /\ Len(ingested.changes) = 2
    /\ Len(changes) = 2
    /\ Len(trackCalls) = 2
    /\ DOMAIN trackOutcomes = {1}
    /\ trackOutcomes[1].http = "Error: Network Error"
    /\ Len(outputChannel) = 1

(***************************************************************************)
(* ContextBridge.  An extension is described by what the bridge reads of   *)
(* it: whether it is defined at all, its exports and the methods they      *)
(* carry, and its packageJSON.                                             *)
(***************************************************************************)
\* Calls of bridgeContextToAI in one run.
MaxBridgeCalls == 2

NoExtension ==
    [defined |-> FALSE, exports |-> "undefined",
     methods |-> [name \in {} |-> ""],
     packageJSON |-> "undefined", displayName |-> ""]

BareExtension == [NoExtension EXCEPT !.defined = TRUE]

EmptyExtension ==
    [BareExtension EXCEPT !.exports = "object", !.packageJSON = "object"]

ContextProviders(behaviour) ==
    [name \in {"registerContextProvider", "addContextProvider"} |->
        behaviour]

BridgeExtensions ==
    {NoExtension, BareExtension, EmptyExtension,
     [EmptyExtension EXCEPT !.methods = ContextProviders("returns"),
                            !.displayName = "Acme AI"],
     [EmptyExtension EXCEPT !.methods = ContextProviders("throws"),
                            !.displayName = "Acme AI"]}

ProviderNames ==
    {"github.copilot", "continue.continue", "anthropic.claude-dev",
     "acme.ai-helper", "tabnine"}

\* vscode.languages.registerInlineCompletionItemProvider of the host.
HostRegistrations == {"returns", "throws"}

\* A statement of a try block threw before anything was stored.
BridgeThrows(providers) ==
    [raised |-> TRUE, value |-> FALSE, providers |-> providers]

\* this.bridgedProviders.set(id, entry); return true
BridgeSet(providers, id, entry) ==
    [raised |-> FALSE, value |-> TRUE,
     providers |-> [key \in DOMAIN providers \cup {id} |->
                       IF key = id THEN entry ELSE providers[key]]]

\* try { ... } catch (error) { console.error(...); return false; }
BridgeCaught(outcome) ==
    IF outcome.raised
    THEN [raised |-> FALSE, value |-> FALSE, providers |-> outcome.providers]
    ELSE outcome

\* extension.exports && extension.exports[method] is truthy and the call of
\* it throws; reading exports of an undefined extension throws as well.
HookThrows(extension, method) ==
    \/ ~extension.defined
    \/ /\ extension.exports = "object"
       /\ method \in DOMAIN extension.methods
       /\ extension.methods[method] = "throws"

\* The position of the last '.' of text, 0 when there is none.
RECURSIVE LastDot(_, _)
LastDot(text, at) ==
    IF at = 0 THEN 0
    ELSE IF SubSeq(text, at, at) = "." THEN at
    ELSE LastDot(text, at - 1)

\* providerName.split('.').pop()
LastSegment(text) == SubSeq(text, LastDot(text, Len(text)) + 1, Len(text))

\* A bridge to Copilot that files the entry under the short name.
bridgeToCopilotShortKey(providers, extension, registration) ==
    BridgeCaught(
        IF registration = "throws" THEN BridgeThrows(providers)
        ELSE BridgeSet(providers, "copilot",
                 [id |-> "github.copilot", name |-> "copilot",
                  displayName |-> "GitHub Copilot", extension |-> extension,
                  apiVersion |-> "1.0"]))

bridgeToCopilot(providers, extension, registration) ==
    BridgeCaught(
        IF registration = "throws" THEN BridgeThrows(providers)
        ELSE BridgeSet(providers, "github.copilot",
                 [id |-> "github.copilot", name |-> "copilot",
                  displayName |-> "GitHub Copilot", extension |-> extension,
                  apiVersion |-> "1.0"]))

bridgeToCline(providers, extension) ==
    BridgeCaught(
        IF HookThrows(extension, "registerContextProvider")
        THEN BridgeThrows(providers)
        ELSE BridgeSet(providers, "continue.continue",
                 [id |-> "continue.continue", name |-> "cline",
                  displayName |-> "Cline", extension |-> extension,
                  apiVersion |-> "1.0"]))

bridgeToClaudeDev(providers, extension) ==
    BridgeCaught(
        IF HookThrows(extension, "addContextProvider")
        THEN BridgeThrows(providers)
        ELSE BridgeSet(providers, "anthropic.claude-dev",
                 [id |-> "anthropic.claude-dev", name |-> "claude-dev",
                  displayName |-> "Claude Dev", extension |-> extension,
                  apiVersion |-> "1.0"]))

\* extension.packageJSON.displayName throws for an undefined extension or
\* an undefined packageJSON.
bridgeToGenericAI(providers, providerName, extension) ==
    BridgeCaught(
        IF ~extension.defined \/ extension.packageJSON = "undefined"
        THEN BridgeThrows(providers)
        ELSE BridgeSet(providers, providerName,
                 [id |-> providerName,
                  name |-> IF LastSegment(providerName) # ""
                           THEN LastSegment(providerName) ELSE providerName,
                  displayName |-> IF extension.displayName # ""
                                  THEN extension.displayName
                                  ELSE providerName,
                  extension |-> extension,
                  apiVersion |-> "generic"]))

\* The switch of bridgeContextToAI inside its own try and catch.
bridgeContextToAI(providers, providerName, extension, registration) ==
    BridgeCaught(
        CASE providerName = "github.copilot" ->
                 bridgeToCopilot(providers, extension, registration)
          [] providerName = "continue.continue" ->
                 bridgeToCline(providers, extension)
          [] providerName = "anthropic.claude-dev" ->
                 bridgeToClaudeDev(providers, extension)
          [] OTHER ->
                 bridgeToGenericAI(providers, providerName, extension))

isBridged(providerId) == providerId \in DOMAIN bridgedProviders

getBridgedProviders == {bridgedProviders[id] : id \in DOMAIN bridgedProviders}

BridgeContextToAI(providerName, extension, registration) ==
    /\ Len(bridgeCalls) < MaxBridgeCalls
    /\ LET result == bridgeContextToAI(bridgedProviders, providerName,
                                       extension, registration)
       IN  /\ bridgedProviders' = result.providers
           /\ bridgeCalls' = Append(bridgeCalls,
                  [providerName |-> providerName, extension |-> extension,
                   promise |-> IF result.raised THEN "rejected"
                               ELSE "fulfilled",
                   value |-> result.value])
    /\ UNCHANGED <<streamVars, bufferVars, hostVars, runVars, detectVars,
                   waitVars, lifeVars, extensionVars, awaitVars, trackVars,
                   enhanceVars, shapeVars, clientVars>>

InitBridge ==
    /\ StreamIdle
    /\ DetectIdle
    /\ WaitIdle
    /\ PeersIdle

NextBridge ==
    \E providerName \in ProviderNames, extension \in BridgeExtensions,
       registration \in HostRegistrations :
        BridgeContextToAI(providerName, extension, registration)

SpecBridge == InitBridge /\ [][NextBridge]_vars

\* C20: every call of bridgeContextToAI ends with its promise fulfilled
\* with true or false, never rejected; after a call that gave true,
\* isBridged(providerName) is true, under the entry of that provider.
C20_ResolvesBoolean ==
    \A i \in 1..Len(bridgeCalls) :
        /\ bridgeCalls[i].promise = "fulfilled"
        /\ bridgeCalls[i].value \in BOOLEAN
        /\ bridgeCalls[i].value =>
              /\ isBridged(bridgeCalls[i].providerName)
              /\ bridgedProviders[bridgeCalls[i].providerName].id =
                     bridgeCalls[i].providerName

\* A call with an undefined extension gave false and stored nothing; a
\* call for Copilot then gave true and Copilot is bridged.
C20_Witness ==
    /\ Len(bridgeCalls) = 2
    /\ bridgeCalls[1].providerName = "acme.ai-helper"
    /\ bridgeCalls[1].extension = NoExtension
    /\ ~bridgeCalls[1].value
    /\ bridgeCalls[2].providerName = "github.copilot"
    /\ bridgeCalls[2].value
    /\ DOMAIN bridgedProviders = {"github.copilot"}
    /\ Cardinality(getBridgedProviders) = 1

(***************************************************************************)
(* LiveContextStream: subscriptions, timer and history over start and      *)
(* stop.                                                                   *)
(***************************************************************************)
NotificationStreams == {Listeners[i] : i \in 1..Len(Listeners)}

LiveSubscriptions ==
    LET RECURSIVE Sum(_)
        Sum(events) ==
            IF events = {} THEN 0
            ELSE LET event == CHOOSE e \in events : TRUE
                 IN  liveListeners[event] + Sum(events \ {event})
    IN  Sum(NotificationStreams)

NamedStreams ==
    {"onDidChangeTextDocument", "onDidChangeActiveTextEditor",
     "onDidSaveTextDocument", "onDidChangeTextEditorSelection"}

\* The stream is stopped after having tracked.
StoppedAfterTracking == startCalls > 0 /\ ~isActive

\* C23 as stated: while tracking there are exactly four subscriptions, the
\* four named ones, and one timer; stopped, there is none of either.
C23_FourSubscriptions ==
    /\ isActive =>
          /\ Len(disposables) = 4
          /\ LiveSubscriptions = 4
          /\ Cardinality(liveTimers) = 1
    /\ ~isActive =>
          /\ Len(disposables) = 0
          /\ LiveSubscriptions = 0
          /\ liveTimers = {}

\* C23 amended: while tracking there are exactly five subscriptions, one
\* to each of the four named streams and one to workspace-folders-changed,
\* and exactly one timer of 5000 ms; after stop() every one of them is
\* disposed, the list is empty and no timer is left.
C23_FiveSubscriptions ==
    /\ isActive =>
          /\ Len(disposables) = 5
          /\ LiveSubscriptions = 5
          /\ \A event \in NamedStreams \cup {"onDidChangeWorkspaceFolders"} :
                /\ liveListeners[event] = 1
                /\ Occurrences(disposables, event) = 1
          /\ Cardinality(liveTimers) = 1
          /\ contextUpdateTimer.handle \in liveTimers
          /\ contextUpdateTimer.interval = 5000
    /\ ~isActive =>
          /\ Len(disposables) = 0
          /\ LiveSubscriptions = 0
          /\ liveTimers = {}
          /\ contextUpdateTimer = NoTimer

\* stop() ran on a tracking stream.
C23_Witness ==
    /\ StoppedAfterTracking
    /\ startCalls = 1
    /\ LiveSubscriptions = 0
    /\ liveTimers = {}

\* C28: tracking, having a timer and having listeners go together; at most
\* one timer is live; every stream has one live subscription while
\* tracking and none while stopped, however many start/stop cycles ran.
C28_LifecycleInSync ==
    /\ isActive <=> contextUpdateTimer # NoTimer
    /\ isActive <=> disposables # <<>>
    /\ Cardinality(liveTimers) <= 1
    /\ contextUpdateTimer # NoTimer =>
          liveTimers = {contextUpdateTimer.handle}
    /\ \A event \in NotificationStreams :
          liveListeners[event] = IF isActive THEN 1 ELSE 0
    /\ Len(disposables) = LiveSubscriptions

\* Tracking was started, stopped and started again: the second timer is
\* the only one.
C28_Witness ==
    /\ startCalls = 2
    /\ isActive
    /\ contextUpdateTimer.handle = 2
    /\ liveTimers = {2}
    /\ LiveSubscriptions = Len(Listeners)

\* C29: a step that stops a tracking stream leaves changes, saves,
\* selections and currentFile as they were; the lists are at all times the
\* last entries of everything ingested since construction, so a later start
\* appends to the history kept; a stopped stream has nothing for stop() to
\* dispose or clear.
C29_StopKeepsHistory ==
    /\ [][(isActive /\ ~isActive') => UNCHANGED bufferVars]_vars
    /\ [](/\ changes = LastN(ingested.changes, maxBufferSize)
          /\ saves = LastN(ingested.saves, maxSaves)
          /\ selections = LastN(ingested.selections, maxSelections))
    /\ [](~isActive =>
             /\ disposables = <<>>
             /\ contextUpdateTimer = NoTimer)

\* The stream was stopped with a change and a save in its buffer.
C29_Witness ==
    /\ StoppedAfterTracking
    /\ Len(changes) >= 1
    /\ Len(saves) = 1
    /\ workload = Timed

\* The stream under the workloads that let the clock advance between events
\* or overflow the list of changes.
Windowed ==
    [NoWork EXCEPT !.changes = MaxChanges, !.saves = 1, !.ticks = MaxTicks,
                   !.reads = 1]

InitWindow ==
    /\ \E work \in {Windowed, BurstChanges} : StreamIdleUnder(work)
    /\ DetectIdle
    /\ WaitIdle
    /\ PeersIdle

NextWindow ==
    \/ startContextTracking
    \/ GetLatestContext
    \/ \E document \in textDocuments : onDocumentChange(document)
    \/ \E document \in textDocuments : onDocumentSave(document)
    \/ \E step \in TickSteps : Tick(step)

SpecWindow == InitWindow /\ [][NextWindow]_vars

NonDecreasing(list) ==
    \A i \in 1..(Len(list) - 1) : list[i].timestamp <= list[i + 1].timestamp

WindowMinutes == {0, 1, defaultMinutes, 60}

\* C30: the timestamps of changes and of saves never decrease along the
\* list, and for every window the recent changes are the last entries of
\* the list.
C30_TimestampsOrdered ==
    /\ NonDecreasing(changes)
    /\ NonDecreasing(saves)
    /\ \A minutes \in WindowMinutes :
          IsSuffix(getRecentChanges(changes, now, minutes), changes)

\* Two changes ingested at different times, the older outside the window
\* of ten minutes and the newer inside.
C30_Witness ==
    /\ Len(changes) = 2
    /\ changes[1].timestamp < changes[2].timestamp
    /\ getRecentChanges(changes, now, defaultMinutes) = <<changes[2]>>

\* The indexes of the changes younger than the window.
Younger(minutes) ==
    {i \in 1..Len(changes) :
        changes[i].timestamp > now - (minutes * 60 * 1000)}

\* C26: for every window, getRecentChanges returns the changes of the
\* buffer with timestamp > now - minutes * 60 s and no other, in buffer
\* order; a change exactly at the cutoff is left out; getLatestContext
\* uses the window of 10 minutes; nothing evicted is returned; the counts
\* of the activity summary are those of the last hour.
C26_RecentWindow ==
    /\ \A minutes \in WindowMinutes :
          LET recent == getRecentChanges(changes, now, minutes)
              younger == Younger(minutes)
              first == Len(changes) - Len(recent)
          IN  /\ Len(recent) = Cardinality(younger)
              /\ \A k \in 1..Len(recent) :
                    /\ recent[k] = changes[first + k]
                    /\ first + k \in younger
              /\ \A i \in 1..first :
                    changes[i].timestamp <= now - (minutes * 60 * 1000)
              /\ \A n \in 1..(Len(ingested.changes) - maxBufferSize) :
                    \A k \in 1..Len(recent) :
                        recent[k] # ingested.changes[n]
    /\ Len(getLatestContext.recentChanges) = Cardinality(Younger(10))
    /\ getActivitySummary(changes, saves, currentFile, now).changesLastHour
           = Cardinality({i \in 1..Len(changes) :
                             changes[i].timestamp > now - 3600000})
    /\ getActivitySummary(changes, saves, currentFile, now).savesLastHour
           = Cardinality({i \in 1..Len(saves) :
                             saves[i].timestamp > now - 3600000})

\* A change lies exactly at the cutoff of the default window and a later
\* one inside it.
C26_Witness ==
    /\ Len(changes) = 2
    /\ changes[1].timestamp = now - (defaultMinutes * MsPerMinute)
    /\ changes[2].timestamp > changes[1].timestamp
    /\ getRecentChanges(changes, now, defaultMinutes) = <<changes[2]>>


(***************************************************************************)
(* KnowledgeHubExtension (extension.ts): activate() and the command        *)
(* knowledgehub.enhanceAI, checked under SpecActivate.  No AI extension    *)
(* is installed in these runs, so registerAIInterceptors bridges nothing.  *)
(***************************************************************************)
MaxToggles == 3

CommandIds ==
    {"knowledgehub.initSession", "knowledgehub.enhanceAI",
     "knowledgehub.showDashboard", "knowledgehub.analyzeProject",
     "knowledgehub.showMemory"}

\* GET /health answers 200 with status 'healthy', answers something else,
\* or the request fails; POST /api/claude-auto/session/init succeeds or not.
Servers == [health : {"healthy", "unhealthy", "unreachable"}, session : BOOLEAN]

AutoEnhanceSettings ==
    {EmptyObject} \cup {[key \in {"ai.autoEnhance"} |-> v] : v \in BOOLEAN}

\* testConnection(): the value it resolves to and the line its catch logs
testConnection ==
    [connected |-> server.health = "healthy",
     line |-> IF server.health = "unreachable"
              THEN "Connection test failed: Error: connect ECONNREFUSED"
              ELSE ""]

\* initializeKnowledgeHub() rejects
initializeKnowledgeHubThrows == ~testConnection.connected \/ ~server.session

\* registerCommands(context)
registerCommands == registeredCommands \cup CommandIds

\* The body of the try block of activate(): whether it raised, and what
\* it had done by then.
activateUncaught ==
    IF initializeKnowledgeHubThrows
    THEN [raised |-> TRUE, registered |-> registeredCommands,
          layer |-> layerActive, tracking |-> FALSE]
    ELSE [raised |-> FALSE, registered |-> registerCommands,
          layer |-> layerActive
                        \/ configGet(settings, "ai.autoEnhance", TRUE),
          tracking |-> TRUE]

\* The catch block of activate() logs and shows a message.
activateCaught(outcome) ==
    [promise |-> "fulfilled", succeeded |-> ~outcome.raised]

\* activate(context)
Activate ==
    /\ activation = NotActivated
    /\ LET outcome == activateUncaught
       IN  /\ activation' = activateCaught(outcome)
           /\ registeredCommands' = outcome.registered
           /\ layerActive' = outcome.layer
           /\ outputChannel' = AppendLine(outputChannel, testConnection.line)
           /\ IF outcome.tracking
              THEN /\ startCalls' = startCalls + 1
                   /\ isActive' = TRUE
                   /\ disposables' = disposables \o Listeners
                   /\ liveListeners' = subscribe(liveListeners, Listeners)
                   /\ contextUpdateTimer' = setInterval(timerIntervalMs)
                   /\ liveTimers' =
                          liveTimers \cup {contextUpdateTimer'.handle}
              ELSE UNCHANGED <<streamVars, lifeVars>>
    /\ UNCHANGED <<bufferVars, hostVars, runVars, detectVars, waitVars,
                   trackVars, shapeVars, bridgeVars, awaitVars, requests,
                   settings, remote, enhanced, server, toggles>>

\* config.update('ai.autoEnhance', value, Global)
configUpdate(config, key, value) ==
    [k \in DOMAIN config \cup {key} |-> IF k = key THEN value ELSE config[k]]

\* toggleAIEnhancement(): the handler of knowledgehub.enhanceAI
toggleAIEnhancement ==
    /\ "knowledgehub.enhanceAI" \in registeredCommands
    /\ Len(toggles) < MaxToggles
    /\ LET currentState == configGet(settings, "ai.autoEnhance", TRUE)
       IN  /\ settings' = configUpdate(settings, "ai.autoEnhance",
                                       ~currentState)
           /\ toggles' = Append(toggles,
                  [before |-> currentState,
                   message |-> IF ~currentState
                               THEN "AI Enhancement enabled"
                               ELSE "AI Enhancement disabled"])
    /\ UNCHANGED <<streamVars, bufferVars, hostVars, runVars, detectVars,
                   waitVars, lifeVars, trackVars, shapeVars, clientVars,
                   bridgeVars, awaitVars, layerActive, remote, enhanced,
                   server, activation, registeredCommands>>

InitActivate ==
    /\ StreamIdle
    /\ DetectIdle
    /\ WaitIdle
    /\ TrackIdle
    /\ ShapesIdle
    /\ ClientIdle
    /\ BridgeIdle
    /\ AwaitIdle
    /\ layerActive = FALSE
    /\ settings \in AutoEnhanceSettings
    /\ remote \in {r \in Remotes : r.ok /\ r.data \in EnhancedContexts}
    /\ Len(remote.data.suggestions) = 1
    /\ enhanced = <<>>
    /\ server \in Servers
    /\ activation = NotActivated
    /\ registeredCommands = {}
    /\ toggles = <<>>

NextActivate ==
    \/ Activate
    \/ toggleAIEnhancement
    \/ \E prompt \in Prompts : EnhanceAIRequest(prompt)

SpecActivate == InitActivate /\ [][NextActivate]_vars

\* C21: once activate() has settled it has not thrown and the five
\* commands are registered, whether or not the server could be reached
\* and whether or not the session could be initialised.
C21_CommandsRegistered ==
    activation # NotActivated
        => /\ activation.promise = "fulfilled"
           /\ CommandIds \subseteq registeredCommands

\* A request made now comes back enhanced.
EnhancesNow ==
    \A prompt \in Prompts :
        "enhancedPrompt"
            \in DOMAIN enhanceAIRequest([prompt |-> prompt]).value

\* Every run of the command found the setting as the run before left it,
\* and the setting is now the opposite of what the last run found.
EachRunFlips ==
    \A i \in 1..Len(toggles) :
        /\ i > 1 => toggles[i].before = ~toggles[i - 1].before
        /\ i = Len(toggles)
               => configGet(settings, "ai.autoEnhance", TRUE)
                      = ~toggles[i].before

\* C22: every run of knowledgehub.enhanceAI flips ai.autoEnhance, and
\* after any number of runs AI requests are enhanced exactly when
\* ai.autoEnhance is true.
C22_ToggleSwitchesEnhancement ==
    /\ EachRunFlips
    /\ toggles # <<>>
           => (EnhancesNow <=> configGet(settings, "ai.autoEnhance", TRUE))


(***************************************************************************)
(* enhanceAIRequest across its await of getEnhancedContext, checked under  *)
(* SpecSuspend: the host changes the active editor while requests are in   *)
(* flight.  The stream is not tracking, so its handlers ignore the         *)
(* notifications.                                                          *)
(***************************************************************************)
Editing ==
    [NoWork EXCEPT !.docs = Docs, !.editors = MaxDropped,
                   !.dropped = MaxDropped]

\* enhanceAIRequest(originalRequest) up to its await of getEnhancedContext:
\* the call holds the context it has gathered by then.
EnhanceAIRequestSuspends(prompt) ==
    /\ layerActive
    /\ Len(suspendedCalls) + Len(enhanced) < MaxRequests
    /\ suspendedCalls' = Append(suspendedCalls,
           [request |-> [prompt |-> prompt],
            vscodeContext |-> gatherVSCodeContext])
    /\ UNCHANGED <<streamVars, bufferVars, hostVars, runVars, detectVars,
                   waitVars, lifeVars, trackVars, enhanceVars, shapeVars,
                   clientVars, bridgeVars, extensionVars, continuations>>

\* What the rest of enhanceAIRequest returns once the server has answered.
enhanceAIRequestResumed(call) ==
    IF \/ ~remote.ok
       \/ createEnhancedPromptThrows(remote.data, settings)
    THEN call.request
    ELSE [prompt |-> call.request.prompt,
          enhancedPrompt |->
              createEnhancedPrompt(call.request.prompt, remote.data,
                                   call.vscodeContext, settings),
          knowledgeHubContext |-> remote.data,
          vscodeContext |-> call.vscodeContext]

\* The server answers call i, in any order: the call resumes and returns.
EnhanceAIRequestResumes(i) ==
    /\ i \in 1..Len(suspendedCalls)
    /\ enhanced' = Append(enhanced,
           [request |-> suspendedCalls[i].request, active |-> TRUE,
            raised |-> FALSE,
            result |-> enhanceAIRequestResumed(suspendedCalls[i])])
    /\ suspendedCalls' =
           SubSeq(suspendedCalls, 1, i - 1)
               \o SubSeq(suspendedCalls, i + 1, Len(suspendedCalls))
    /\ UNCHANGED <<streamVars, bufferVars, hostVars, runVars, detectVars,
                   waitVars, lifeVars, trackVars, shapeVars, clientVars,
                   bridgeVars, extensionVars, continuations, layerActive,
                   settings, remote>>

InitSuspend ==
    /\ StreamIdleUnder(Editing)
    /\ DetectIdle
    /\ WaitIdle
    /\ TrackIdle
    /\ ShapesIdle
    /\ ClientIdle
    /\ BridgeIdle
    /\ ExtensionIdle
    /\ AwaitIdle
    /\ layerActive = FALSE
    /\ settings \in Settings
    /\ remote \in Remotes
    /\ remote.data \in EnhancedContexts => Len(remote.data.suggestions) = 1
    /\ enhanced = <<>>

NextSuspend ==
    \/ layerStart
    \/ layerStop
    \/ \E prompt \in Prompts : EnhanceAIRequestSuspends(prompt)
    \/ \E i \in 1..MaxRequests : EnhanceAIRequestResumes(i)
    \/ \E editor \in textDocuments \cup {NoEditor} : onEditorChange(editor)

SpecSuspend == InitSuspend /\ [][NextSuspend]_vars

\* C24: a call that resumes with an enhanced request returns the editor
\* state of the moment it resumes: vscodeContext is what
\* gatherVSCodeContext reads then and the prompt is built from it.
C24_ResumeReadsFreshState ==
    [][Len(enhanced') > Len(enhanced)
           => LET e == enhanced'[Len(enhanced')].result
              IN  "enhancedPrompt" \in DOMAIN e
                      => /\ e.vscodeContext = gatherVSCodeContext
                         /\ e.enhancedPrompt =
                                createEnhancedPrompt(e.prompt, remote.data,
                                    gatherVSCodeContext, settings)]_vars


(***************************************************************************)
(* The stream's handlers at the grain of their awaits, checked under       *)
(* SpecAsync.  A handler runs without preemption up to its first await;    *)
(* what is left of it waits in continuations and resumes later.  The       *)
(* continuations resume in any order and between any two notifications,    *)
(* which covers the order the microtask queue gives them.                  *)
(***************************************************************************)
MaxPending == 2

Interleaved ==
    [NoWork EXCEPT !.changes = 2, !.saves = 1, !.selections = 1,
                   !.editors = 1, !.folders = 1, !.timers = 1, !.reads = 1]

MaySuspend == Len(continuations) < MaxPending

\* A trackCodeChange request in flight fails, so that its .catch callback
\* runs among the continuations.
Settlings == {[ok |-> FALSE, error |-> "Error: Network Error"]}

Suspended(handler, partial) ==
    Append(continuations, [handler |-> handler, step |-> 1,
                           partial |-> partial])

\* getLatestContext() up to its first await: the object literal has read
\* recentChanges and getCurrentFocus has run.
getLatestContextBegins ==
    [recentChanges |-> getRecentChanges(changes, now, defaultMinutes),
     currentFocus |-> getCurrentFocus]

\* onEditorChange(editor) up to await updateCurrentFocus(...)
onEditorChangeAwaits(editor) ==
    /\ MaySend("editors")
    /\ sent' = Sent("editors")
    /\ activeTextEditor' = editor
    /\ IF ~isActive \/ editor = NoEditor
       THEN UNCHANGED <<currentFile, continuations>>
       ELSE /\ MaySuspend
            /\ currentFile' = editor
            /\ continuations' = Suspended("onEditorChange", EmptyObject)
    /\ UNCHANGED <<streamVars, changes, saves, selections, now,
                   textDocuments, trackCalls, contexts, workload, ingested,
                   detectVars, waitVars, lifeVars, trackVars, enhanceVars,
                   shapeVars, clientVars, bridgeVars, extensionVars,
                   suspendedCalls>>

\* onDocumentSave(document) up to await analyzeChangesOnSave(...), whose
\* body has run by then.
onDocumentSaveAwaits(document) ==
    /\ MaySend("saves")
    /\ sent' = Sent("saves")
    /\ IF ~isActive \/ Scheme(document) # "file"
       THEN UNCHANGED <<saves, ingested, continuations>>
       ELSE /\ MaySuspend
            /\ saves' = addSaveEvent(saves, document, now)
            /\ ingested' = [ingested EXCEPT !.saves =
                               Append(@, [file |-> document,
                                          timestamp |-> now])]
            /\ continuations' = Suspended("onDocumentSave", EmptyObject)
    /\ UNCHANGED <<streamVars, changes, selections, currentFile, hostVars,
                   workload, detectVars, waitVars, lifeVars, trackVars,
                   enhanceVars, shapeVars, clientVars, bridgeVars,
                   extensionVars, suspendedCalls>>

\* onWorkspaceFolderChange(event) up to await updateProjectState()
onWorkspaceFolderChangeAwaits ==
    /\ MaySend("folders")
    /\ sent' = Sent("folders")
    /\ IF ~isActive
       THEN UNCHANGED continuations
       ELSE /\ MaySuspend
            /\ continuations' =
                   Suspended("onWorkspaceFolderChange", EmptyObject)
    /\ UNCHANGED <<streamVars, bufferVars, hostVars, workload, ingested,
                   detectVars, waitVars, lifeVars, trackVars, enhanceVars,
                   shapeVars, clientVars, bridgeVars, extensionVars,
                   suspendedCalls>>

\* updateContextPeriodically() up to the first await of getLatestContext()
updateContextPeriodicallyAwaits ==
    /\ MaySend("timers")
    /\ sent' = Sent("timers")
    /\ IF ~isActive
       THEN UNCHANGED continuations
       ELSE /\ MaySuspend
            /\ continuations' = Suspended("updateContextPeriodically",
                                          getLatestContextBegins)
    /\ UNCHANGED <<streamVars, bufferVars, hostVars, workload, ingested,
                   detectVars, waitVars, lifeVars, trackVars, enhanceVars,
                   shapeVars, clientVars, bridgeVars, extensionVars,
                   suspendedCalls>>

\* A caller's getLatestContext() up to its first await; the caller of
\* these runs keeps nothing of the context it gets.
GetLatestContextAwaits ==
    /\ sent.reads < workload.reads
    /\ MaySuspend
    /\ sent' = [sent EXCEPT !.reads = @ + 1]
    /\ continuations' = Suspended("getLatestContext", getLatestContextBegins)
    /\ UNCHANGED <<streamVars, bufferVars, hostVars, workload, ingested,
                   detectVars, waitVars, lifeVars, trackVars, enhanceVars,
                   shapeVars, clientVars, bridgeVars, extensionVars,
                   suspendedCalls>>

Without(list, i) == SubSeq(list, 1, i - 1) \o SubSeq(list, i + 1, Len(list))

\* What continuation c does when it resumes, up to its next await: the
\* continuation left of it (step 0: none) and the context it returns.
Resumed(c) ==
    IF c.handler \notin {"getLatestContext", "updateContextPeriodically"}
    THEN [c EXCEPT !.step = 0]
    ELSE IF c.step = 1
    THEN [c EXCEPT !.step = 2,
                   !.partial = @ @@ [projectState |-> getProjectState]]
    ELSE IF c.step = 2
    THEN [c EXCEPT !.step = 3,
                   !.partial = @ @@ [activePatterns |-> getActivePatterns]]
    ELSE IF c.step = 3 /\ c.handler = "updateContextPeriodically"
    THEN [c EXCEPT !.step = 4]
    ELSE [c EXCEPT !.step = 0]

\* A resumption that records the save once more.
ResumesSavingAgain(i) ==
    /\ i \in 1..Len(continuations)
    /\ LET c == continuations[i]
           next == Resumed(c)
       IN  /\ continuations' =
                  IF next.step = 0 THEN Without(continuations, i)
                  ELSE [continuations EXCEPT ![i] = next]
           /\ saves' = IF c.handler = "onDocumentSave"
                       THEN addSaveEvent(saves, currentFile, now)
                       ELSE saves
    /\ UNCHANGED <<streamVars, changes, selections, currentFile, hostVars,
                   runVars, detectVars, waitVars, lifeVars, trackVars,
                   enhanceVars, shapeVars, clientVars, bridgeVars,
                   extensionVars, suspendedCalls>>

\* Continuation i resumes and runs up to its next await or to its end.
Resumes(i) ==
    /\ i \in 1..Len(continuations)
    /\ LET c == continuations[i]
           next == Resumed(c)
       IN  /\ continuations' =
                  IF next.step = 0 THEN Without(continuations, i)
                  ELSE [continuations EXCEPT ![i] = next]
    /\ UNCHANGED <<streamVars, bufferVars, hostVars, runVars, detectVars,
                   waitVars, lifeVars, trackVars, enhanceVars, shapeVars,
                   clientVars, bridgeVars, extensionVars, suspendedCalls>>

InitAsync ==
    /\ StreamIdleUnder(Interleaved)
    /\ DetectIdle
    /\ WaitIdle
    /\ PeersIdle

NextAsync ==
    \/ ~isActive /\ startContextTracking
    \/ \E document \in textDocuments : onDocumentChange(document)
    \/ \E document \in textDocuments : onSelectionChange(document)
    \/ \E editor \in textDocuments \cup {NoEditor} :
          onEditorChangeAwaits(editor)
    \/ \E document \in textDocuments : onDocumentSaveAwaits(document)
    \/ onWorkspaceFolderChangeAwaits
    \/ updateContextPeriodicallyAwaits
    \/ GetLatestContextAwaits
    \/ \E i \in 1..MaxPending : Resumes(i)
    \/ \E i \in 1..Len(trackCalls), response \in Settlings :
          TrackCodeChangeSettles(i, response)

SpecAsync == InitAsync /\ [][NextAsync]_vars


\* The lists a buffer holds after the events of a log were added one by
\* one, in the order of the log.
RECURSIVE ReplayChanges(_)
ReplayChanges(log) ==
    IF log = <<>> THEN <<>>
    ELSE addChange(ReplayChanges(SubSeq(log, 1, Len(log) - 1)),
                   log[Len(log)])

RECURSIVE ReplaySaves(_)
ReplaySaves(log) ==
    IF log = <<>> THEN <<>>
    ELSE addSaveEvent(ReplaySaves(SubSeq(log, 1, Len(log) - 1)),
                      log[Len(log)].file, log[Len(log)].timestamp)

RECURSIVE ReplaySelections(_)
ReplaySelections(log) ==
    IF log = <<>> THEN <<>>
    ELSE addSelectionChange(ReplaySelections(SubSeq(log, 1, Len(log) - 1)),
                            log[Len(log)])

\* C25: whatever handlers are suspended at an await, whatever requests
\* are in flight and in whatever order they resume and settle, every
\* notification the host sent was ingested once, in the order sent, and
\* each list of the buffer is what adding the ingested events one by one
\* gives.
C25_RaceFree ==
    /\ Len(ingested.changes) = sent.changes
    /\ Len(ingested.saves) = sent.saves
    /\ Len(ingested.selections) = sent.selections
    /\ \A i \in 1..Len(ingested.changes) : ingested.changes[i].changes = i
    /\ \A i \in 1..Len(ingested.selections) :
           ingested.selections[i].selection = i
    /\ changes = ReplayChanges(ingested.changes)
    /\ saves = ReplaySaves(ingested.saves)
    /\ selections = ReplaySelections(ingested.selections)
    /\ currentFile = IF sent.editors > 0 /\ activeTextEditor # NoEditor
                     THEN activeTextEditor ELSE ""

\* A save is still suspended at its await and the timer's read is between
\* two awaits while both changes were ingested and the request of the
\* first has failed.
C25_Witness ==
    /\ \E i \in 1..Len(continuations) :
           continuations[i].handler = "onDocumentSave"
    /\ \E i \in 1..Len(continuations) :
           /\ continuations[i].handler = "updateContextPeriodically"
           /\ continuations[i].step = 2
           /\ continuations[i].partial.recentChanges = <<>>
    /\ Len(changes) = 2
    /\ Len(saves) = 1
    /\ 1 \in DOMAIN trackOutcomes
    /\ trackOutcomes[1].http # "ok"
    /\ 2 \notin DOMAIN trackOutcomes

=============================================================================
